---- MODULE Spec2Model ----
(***************************************************************************)
(* State-machine model of selfdrive/car/interfaces.py and of the           *)
(* AccelController of controls/lib/sunnypilot/accel_controller.py: the     *)
(* per-tick                                                                *)
(* engagement logic of CarInterfaceBase (MADS arm-pending debounce, pedal  *)
(* disengage, lateral suppression, safety events, button events) and the   *)
(* persistent state of CarStateBase it works on.                           *)
(*                                                                         *)
(* Every method is one action.  The per-make _update() that calls the      *)
(* methods is not part of the modelled files, so the methods may be called *)
(* in any order on the tick's message cs_out, and the fields of CS that    *)
(* the callers own (madsEnabled, accEnabled) are written by an environment *)
(* action.                                                                 *)
(***************************************************************************)
EXTENDS Integers, Sequences, FiniteSets, TLC

VARIABLES
  CP,      \* car.CarParams fields read by the interface, and with them the constants
           \* of the make that its CarState passes to the filters
  CI,      \* fields of the CarInterfaceBase object (self.*)
  CS,      \* fields of the CarStateBase object (self.CS.*), with CS.out and CS.params_list
  cs_out,  \* the car.CarState message being built in the current tick (ret / cs_out)
  events,  \* the Events object of the current tick: the method that last returned it
           \* ("none" before create_common_events made it) and its names in insertion order
  param_s, \* the Params store written by the interface
  now,     \* time.monotonic(), in control ticks
  call,    \* the last method called, its arguments and its return value
  hist,    \* history of the calls of get_sp_started_mads (observation only)
  accel_controller \* fields of the AccelController object of accel_controller.py

vars == <<CP, CI, CS, cs_out, events, param_s, now, call, hist, accel_controller>>

-----------------------------------------------------------------------------
(* Bounds of the model *)

\* 1.0 second of time.monotonic(), counted in control ticks (1.0 / DT_CTRL)
WindowTicks == 2
\* ticks a behaviour runs beyond the arm-pending window
ExtraTicks == 3
\* int(0.5 / DT_CTRL): ticks of unknown gear before the wrong-gear event
GearWarningTicks == 2
\* int(1.5 / DT_CTRL): ticks after the wheel is released with a silent steer warning
SteerUnpressedTicks == 3
\* most button events decoded in one tick
MaxButtons == 2

-----------------------------------------------------------------------------
(* Program constants *)

\* toggle_exp_mode: ticks the gap button is held before the toggle
GapHoldTicks == 50
\* MAX_CTRL_SPEED = (V_CRUISE_MAX + 4) * CV.KPH_TO_MS = 41.4 m/s; speeds are whole m/s
MAX_CTRL_SPEED == 41
\* speed below which the wrong-gear and reverse-gear events are silent
SilentGearSpeed == 5

GearShifter == {"unknown", "park", "drive", "neutral", "reverse",
                "sport", "low", "brake", "eco", "manumatic"}

FORWARD_GEARS == {"drive", "low", "eco", "sport", "manumatic", "brake"}

ButtonType == {"accelCruise", "decelCruise", "resumeCruise", "cancel",
               "altButton1", "gapAdjustCruise"}

\* default enable_buttons of create_common_events / create_sp_events
DefaultEnableButtons == {"accelCruise", "decelCruise"}

-----------------------------------------------------------------------------
(* Messages *)

\* car.CarState.new_message(): every field at its default
NewMessage ==
  [cruiseState |-> [available |-> FALSE, enabled |-> FALSE, nonAdaptive |-> FALSE],
   gearShifter |-> "unknown",
   vEgo |-> 0,
   doorOpen |-> FALSE,
   seatbeltUnlatched |-> FALSE,
   gasPressed |-> FALSE,
   brakePressed |-> FALSE,
   regenBraking |-> FALSE,
   standstill |-> FALSE,
   brakeHoldActive |-> FALSE,
   parkingBrake |-> FALSE,
   espDisabled |-> FALSE,
   espActive |-> FALSE,
   stockFcw |-> FALSE,
   stockAeb |-> FALSE,
   accFaulted |-> FALSE,
   steeringPressed |-> FALSE,
   steerFaultTemporary |-> FALSE,
   steerFaultPermanent |-> FALSE,
   buttonEvents |-> <<>>,
   madsEnabled |-> FALSE,
   accEnabled |-> FALSE,
   disengageByBrake |-> FALSE,
   latActive |-> FALSE,
   belowLaneChangeSpeed |-> FALSE,
   brakeLightsDEPRECATED |-> FALSE]

\* ParamManager().get_params(): the flags of params_list the interface reads
DefaultParams ==
  [mads_main_toggle |-> FALSE,
   acc_mads_combo |-> FALSE,
   reverse_dm_cam |-> FALSE,
   below_speed_pause |-> FALSE,
   experimental_mode |-> FALSE]

\* ret.as_reader(), kept as CS.out: the fields of the previous message that are read
AsReader(msg) ==
  [cruiseState |-> msg.cruiseState,
   gasPressed |-> msg.gasPressed,
   brakePressed |-> msg.brakePressed,
   regenBraking |-> msg.regenBraking,
   steerFaultTemporary |-> msg.steerFaultTemporary]

\* no Events object yet in this tick
NoEvents == [owner |-> "none", list |-> <<>>]

\* Events.add
EventsAdd(ev, name) == Append(ev, name)

AddIf(cond, ev, name) == IF cond THEN EventsAdd(ev, name) ELSE ev

Has(ev, name) == \E i \in 1..Len(ev) : ev[i] = name

SatInc(x, cap) == IF x < cap THEN x + 1 ELSE cap

-----------------------------------------------------------------------------
(* Construction *)

\* an optional value: <<>> is None, <<v>> is the value v
None == <<>>
Some(v) == <<v>>

\* CarStateBase.__init__
CarStateBase_init(params_list) ==
  [out |-> AsReader(NewMessage),
   accEnabled |-> FALSE,
   madsEnabled |-> FALSE,
   disengageByBrake |-> FALSE,
   mads_enabled |-> FALSE,
   prev_mads_enabled |-> FALSE,
   control_initialized |-> FALSE,
   left_blinker_cnt |-> 0,
   right_blinker_cnt |-> 0,
   steering_pressed_cnt |-> 0,
   left_blinker_prev |-> FALSE,
   right_blinker_prev |-> FALSE,
   v_ego_kf |-> [x |-> <<0, 0>>, n |-> 0],
   params_list |-> params_list]

\* variant: the cancel latch starts clear
CarInterfaceBase_initMut(disengage_on_accelerator, enable_mads) ==
  [steering_unpressed |-> 0,
   no_steer_warning |-> FALSE,
   silent_steer_warning |-> TRUE,
   disengage_on_accelerator |-> disengage_on_accelerator,
   enable_mads |-> enable_mads,
   gear_warning |-> 0,
   cruise_cancelled_btn |-> FALSE,
   prev_acc_mads_combo |-> FALSE,
   gap_button_counter |-> 0,
   experimental_mode_hold |-> FALSE,
   last_mads_init |-> 0,
   madsEnabledInit |-> FALSE,
   madsEnabledInitPrev |-> FALSE,
   lat_torque_nn_model |-> None]

\* CarInterfaceBase.__init__, with the two persisted flags read from Params
CarInterfaceBase_init(disengage_on_accelerator, enable_mads) ==
  [steering_unpressed |-> 0,
   no_steer_warning |-> FALSE,
   silent_steer_warning |-> TRUE,
   disengage_on_accelerator |-> disengage_on_accelerator,
   enable_mads |-> enable_mads,
   gear_warning |-> 0,
   cruise_cancelled_btn |-> TRUE,
   prev_acc_mads_combo |-> FALSE,
   gap_button_counter |-> 0,
   experimental_mode_hold |-> FALSE,
   last_mads_init |-> 0,
   madsEnabledInit |-> FALSE,
   madsEnabledInitPrev |-> FALSE,
   lat_torque_nn_model |-> None]

\* what is remembered of the calls of get_sp_started_mads
\*   watch "window": win_start, the time of the last start of the pending window
\*   watch "arm":    win_start as for "window", and -1 again once a tick's message
\*                   shows cruise availability lost
\*   watch "flap":   p, how many of the last ticks ran (not available, drive) and then
\*                   (available, drive); armed / parmed, whether a call of those ticks
\*                   returned True (parmed: a call with the main toggle set and the
\*                   combo latch clear, in a run of ticks that began with
\*                   madsEnabledInit false)
\* and of the ticks
\*   watch "steady": snap, the message the decoder produced for the current tick;
\*                   same, for how many ticks in a row (up to 2) the decoder has
\*                   repeated the message before; prevDone, prevEvents, whether the
\*                   previous tick ended with the events of create_sp_events, and
\* and of the calls of update_blinker_from_stalk
\*   watch "stalk":  edge_calls, the number of calls since the last rising edge of the
\*                   left stalk, that call included, with the right stalk not seen
\*                   (0: no such edge, or the right stalk was seen since)
\* and of the calls of create_common_events
\*   watch "steer":  silent_seen, whether steerTempUnavailableSilent was emitted since
\*                   the last tick whose message had no temporary steer fault
HistInit(watch) ==
  [watch |-> watch, win_start |-> -1,
   p |-> 0, armed |-> FALSE, parmed |-> FALSE, okStart |-> FALSE,
   armedNow |-> FALSE, parmedNow |-> FALSE, initAtStart |-> FALSE,
   snap |-> NewMessage, same |-> 0, prevDone |-> FALSE, prevEvents |-> {},
   edge_calls |-> 0, silent_seen |-> FALSE, held |-> 0, put |-> FALSE]

NoCall == [op |-> "init", ret |-> FALSE, gear_allowed |-> FALSE]

Called(op, ret) == [op |-> op, ret |-> ret, gear_allowed |-> FALSE]

DP_ACCEL_STOCK == 0

\* AccelController.__init__
AccelController_init == [profile |-> DP_ACCEL_STOCK]

\* the state after construction, for car parameters in CPs, persisted flags
\* <<DisengageOnAccelerator, EnableMads>> in Flags and stored parameters in ParamLists
Constructed(CPs, Flags, ParamLists, watch) ==
  /\ CP \in CPs
  /\ \E f \in Flags : CI = CarInterfaceBase_init(f[1], f[2])
  /\ \E pl \in ParamLists : CS = CarStateBase_init(pl)
  /\ cs_out = NewMessage
  /\ events = NoEvents
  /\ param_s = [ExperimentalMode |-> FALSE]
  /\ now = 0
  /\ call = NoCall
  /\ hist = HistInit(watch)
  /\ accel_controller = AccelController_init

InTick == call.op # "init"

-----------------------------------------------------------------------------
(* CarInterfaceBase.update: one control tick begins.  The message of the    *)
(* previous tick is copied to CS.out, params_list is replaced by the        *)
(* caller's, and the per-make decoder produces the tick's message.          *)

update(Snapshots, ParamLists, Horizon) ==
  /\ now < Horizon
  /\ \E s \in Snapshots, pl \in ParamLists :
       /\ cs_out' = s
       /\ CS' = [CS EXCEPT !.out = IF InTick THEN AsReader(cs_out) ELSE @, !.params_list = pl]
  /\ now' = now + 1
  /\ events' = NoEvents
  /\ call' = Called("update", FALSE)
  /\ hist' =
       IF hist.watch = "steady"
       THEN [hist EXCEPT
               !.snap = cs_out',
               !.same = IF InTick /\ cs_out' = hist.snap
                        THEN (IF hist.same < 2 THEN hist.same + 1 ELSE 2)
                        ELSE 0,
               !.prevDone = events.owner = "create_sp_events",
               !.prevEvents = {events.list[i] : i \in DOMAIN events.list}]
       ELSE IF hist.watch = "steer"
       THEN [hist EXCEPT !.silent_seen = @ /\ cs_out'.steerFaultTemporary]
       ELSE IF hist.watch = "arm"
       THEN [hist EXCEPT !.win_start =
               IF InTick /\ cs_out.cruiseState.available /\ ~cs_out'.cruiseState.available
               THEN -1 ELSE @]
       ELSE IF hist.watch # "flap" THEN hist
       ELSE
         LET drive == cs_out.gearShifter = "drive"
             first == InTick /\ ~cs_out.cruiseState.available /\ drive
             second == InTick /\ cs_out.cruiseState.available /\ drive /\ hist.p = 1
         IN [hist EXCEPT
               !.p = IF first THEN 1 ELSE IF second THEN 2 ELSE 0,
               !.armed = IF first THEN hist.armedNow
                         ELSE IF second THEN hist.armed \/ hist.armedNow
                         ELSE FALSE,
               !.okStart = IF first THEN ~hist.initAtStart
                           ELSE IF second THEN hist.okStart
                           ELSE FALSE,
               !.parmed = IF first THEN hist.parmedNow /\ ~hist.initAtStart
                          ELSE IF second THEN hist.parmed \/ (hist.okStart /\ hist.parmedNow)
                          ELSE FALSE,
               !.armedNow = FALSE,
               !.parmedNow = FALSE,
               !.initAtStart = CI.madsEnabledInit]
  /\ UNCHANGED <<accel_controller, CP, CI, param_s>>

\* the per-make caller writes the engagement request into CS (button toggle,
\* main switch, cancel, or the value a method returned)
caller_set_madsEnabled ==
  /\ InTick
  /\ \E b \in BOOLEAN : CS' = [CS EXCEPT !.madsEnabled = b]
  /\ CS'.madsEnabled # CS.madsEnabled
  /\ call' = Called("caller", FALSE)
  /\ UNCHANGED <<accel_controller, CP, CI, cs_out, events, param_s, now, hist>>

caller_set_accEnabled ==
  /\ InTick
  /\ \E b \in BOOLEAN : CS' = [CS EXCEPT !.accEnabled = b]
  /\ CS'.accEnabled # CS.accEnabled
  /\ call' = Called("caller", FALSE)
  /\ UNCHANGED <<accel_controller, CP, CI, cs_out, events, param_s, now, hist>>

-----------------------------------------------------------------------------
(* MADS arming *)

get_acc_mads(cruiseState_enabled, acc_enabled, mads_enabled) ==
  /\ InTick
  /\ LET combo == CS.params_list.acc_mads_combo
         rising == combo /\ ~CI.prev_acc_mads_combo /\ (cruiseState_enabled \/ acc_enabled)
     IN /\ CI' = [CI EXCEPT !.prev_acc_mads_combo =
                     IF combo THEN (cruiseState_enabled \/ acc_enabled) ELSE @]
        /\ call' = Called("get_acc_mads", IF rising THEN TRUE ELSE mads_enabled)
  /\ UNCHANGED <<accel_controller, CP, CS, cs_out, events, param_s, now, hist>>

get_sp_cruise_main_state ==
  /\ InTick
  /\ call' = Called("get_sp_cruise_main_state",
                    IF ~CS.control_initialized THEN FALSE
                    ELSE IF ~CS.params_list.mads_main_toggle THEN FALSE
                    ELSE cs_out.cruiseState.available)
  /\ UNCHANGED <<accel_controller, CP, CI, CS, cs_out, events, param_s, now, hist>>

\* variant: the 1.0 second is left out
MadsInitPendingMut(t, last_mads_init) == t < last_mads_init

\* time.monotonic() < self.last_mads_init + 1.
MadsInitPending(t, last_mads_init) == t < last_mads_init + WindowTicks

\* variant: tests that cruise stays unavailable
AvailabilityLostMut(cs, prev) == ~cs.cruiseState.available /\ ~prev.cruiseState.available

\* cruise availability was lost in this tick
AvailabilityLost(cs, prev) == ~cs.cruiseState.available /\ prev.cruiseState.available

\* the result of get_sp_started_mads: the new interface fields and the return value
started_mads ==
  IF AvailabilityLost(cs_out, CS.out)
  THEN [CI |-> [CI EXCEPT !.madsEnabledInit = FALSE, !.madsEnabledInitPrev = FALSE],
        ret |-> FALSE]
  ELSE IF ~CS.params_list.mads_main_toggle \/ CI.prev_acc_mads_combo
  THEN [CI |-> CI, ret |-> CS.madsEnabled]
  ELSE
    LET start == ~CI.madsEnabledInit /\ CS.madsEnabled
        fwd == cs_out.gearShifter \in FORWARD_GEARS
        c1 == [CI EXCEPT !.madsEnabledInit = @ \/ start,
                         !.last_mads_init = IF start \/ ~fwd THEN now ELSE @]
    IN IF c1.madsEnabledInit /\ (~c1.madsEnabledInitPrev \/ ~fwd)
       THEN IF MadsInitPending(now, c1.last_mads_init)
            THEN [CI |-> c1, ret |-> FALSE]
            ELSE [CI |-> [c1 EXCEPT !.madsEnabledInitPrev = TRUE],
                  ret |-> cs_out.cruiseState.available]
       ELSE [CI |-> c1, ret |-> CS.madsEnabled]

get_sp_started_mads ==
  /\ InTick
  /\ CI' = started_mads.CI
  /\ call' = Called("get_sp_started_mads", started_mads.ret)
  /\ hist' =
       IF hist.watch \in {"window", "arm"}
       THEN [hist EXCEPT
               !.win_start = IF ~CI.madsEnabledInit /\ CI'.madsEnabledInit THEN now ELSE @]
       ELSE IF hist.watch = "flap"
       THEN [hist EXCEPT
               !.armedNow = @ \/ started_mads.ret,
               !.parmedNow = @ \/ (started_mads.ret /\ CS.params_list.mads_main_toggle
                                                    /\ ~CI.prev_acc_mads_combo)]
       ELSE hist
  /\ UNCHANGED <<accel_controller, CP, CS, cs_out, events, param_s, now>>

-----------------------------------------------------------------------------
(* Pedals, cruise axis *)

get_sp_pedal_disengage(cs, prev, disengage_on_accelerator) ==
  LET accel_pedal == cs.gasPressed /\ ~prev.gasPressed /\ disengage_on_accelerator
      brake == cs.brakePressed /\ (~prev.brakePressed \/ ~cs.standstill)
      regen == cs.regenBraking /\ (~prev.regenBraking \/ ~cs.standstill)
  IN accel_pedal \/ brake \/ regen

\* variant: the rising edge of an enable button counts as well
sp_v_cruise_buttonMut(acc, b, v_cruise_initialized, enable_buttons, resume_button) ==
  LET a1 == IF (~CP.pcmCruise \/ ~CP.pcmCruiseSpeed) /\ b.type \in enable_buttons
            THEN TRUE ELSE acc
      a2 == IF ~CP.pcmCruise /\ b.type \in resume_button /\ ~v_cruise_initialized
            THEN FALSE ELSE a1
      a3 == IF ~CP.pcmCruiseSpeed /\ b.type = "accelCruise" /\ ~cs_out.cruiseState.enabled
            THEN FALSE ELSE a2
  IN a3

\* V_CRUISE_UNSET is the caller's; v_cruise_initialized is vCruise != V_CRUISE_UNSET
sp_v_cruise_button(acc, b, v_cruise_initialized, enable_buttons, resume_button) ==
  LET a1 == IF (~CP.pcmCruise \/ ~CP.pcmCruiseSpeed) /\ b.type \in enable_buttons /\ ~b.pressed
            THEN TRUE ELSE acc
      a2 == IF ~CP.pcmCruise /\ b.type \in resume_button /\ ~v_cruise_initialized
            THEN FALSE ELSE a1
      a3 == IF ~CP.pcmCruiseSpeed /\ b.type = "accelCruise" /\ ~cs_out.cruiseState.enabled
            THEN FALSE ELSE a2
  IN a3

RECURSIVE sp_v_cruise_loop(_, _, _, _, _, _)
sp_v_cruise_loop(bs, i, acc, v_cruise_initialized, enable_buttons, resume_button) ==
  IF i > Len(bs) THEN acc
  ELSE sp_v_cruise_loop(bs, i + 1,
         sp_v_cruise_button(acc, bs[i], v_cruise_initialized, enable_buttons, resume_button),
         v_cruise_initialized, enable_buttons, resume_button)

get_sp_v_cruise_non_pcm_state(acc_enabled, button_events, v_cruise_initialized) ==
  /\ InTick
  /\ call' = Called("get_sp_v_cruise_non_pcm_state",
                IF cs_out.cruiseState.available
                THEN sp_v_cruise_loop(button_events, 1, acc_enabled, v_cruise_initialized,
                                      DefaultEnableButtons, {"accelCruise", "resumeCruise"})
                ELSE FALSE)
               @@ [args |-> <<acc_enabled, button_events, v_cruise_initialized>>]
  /\ UNCHANGED <<accel_controller, CP, CI, CS, cs_out, events, param_s, now, hist>>

\* returns (mads_enabled, acc_enabled); the model keeps the first, the second is the argument
get_sp_cancel_cruise_state(mads_enabled) ==
  /\ InTick
  /\ call' = Called("get_sp_cancel_cruise_state",
       IF ~CI.enable_mads \/ CI.disengage_on_accelerator THEN FALSE ELSE mads_enabled)
  /\ UNCHANGED <<accel_controller, CP, CI, CS, cs_out, events, param_s, now, hist>>

-----------------------------------------------------------------------------
(* get_sp_common_state *)

\* variant: the hold is not remembered after the write
toggle_exp_modeMut(ci, ps, experimental_mode, gap_pressed) ==
  IF gap_pressed
  THEN IF ~ci.experimental_mode_hold
       THEN IF ci.gap_button_counter + 1 > GapHoldTicks
            THEN [CI |-> [ci EXCEPT !.gap_button_counter = 0],
                  param_s |-> [ps EXCEPT !.ExperimentalMode = ~experimental_mode]]
            ELSE [CI |-> [ci EXCEPT !.gap_button_counter = @ + 1], param_s |-> ps]
       ELSE [CI |-> ci, param_s |-> ps]
  ELSE [CI |-> [ci EXCEPT !.gap_button_counter = 0, !.experimental_mode_hold = FALSE],
        param_s |-> ps]

\* the new interface fields and Params store after toggle_exp_mode(gap_pressed)
toggle_exp_mode(ci, ps, experimental_mode, gap_pressed) ==
  IF gap_pressed
  THEN IF ~ci.experimental_mode_hold
       THEN IF ci.gap_button_counter + 1 > GapHoldTicks
            THEN [CI |-> [ci EXCEPT !.gap_button_counter = 0, !.experimental_mode_hold = TRUE],
                  param_s |-> [ps EXCEPT !.ExperimentalMode = ~experimental_mode]]
            ELSE [CI |-> [ci EXCEPT !.gap_button_counter = @ + 1], param_s |-> ps]
       ELSE [CI |-> ci, param_s |-> ps]
  ELSE [CI |-> [ci EXCEPT !.gap_button_counter = 0, !.experimental_mode_hold = FALSE],
        param_s |-> ps]

\* variant: the door is not looked at
LatSuppressedMut(cs) ==
  \/ cs.gearShifter \in {"park", "reverse"}
  \/ (cs.seatbeltUnlatched /\ cs.gearShifter # "park")

\* lateral control is withheld
LatSuppressed(cs) ==
  \/ cs.gearShifter \in {"park", "reverse"}
  \/ cs.doorOpen
  \/ (cs.seatbeltUnlatched /\ cs.gearShifter # "park")

\* the pedal test of get_sp_common_state
CommonStatePedal(cs, prev, disengage_on_accelerator) ==
  \/ (cs.gasPressed /\ ~prev.gasPressed /\ disengage_on_accelerator)
  \/ (cs.brakePressed /\ (~prev.brakePressed \/ ~cs.standstill))
  \/ (cs.regenBraking /\ (~prev.regenBraking \/ ~cs.standstill))

\* lane_change_speed_min is get_min_lateral_speed(...), a value of the desire helper
get_sp_common_state(gear_allowed, gap_button, lane_change_speed_min) ==
  /\ InTick
  /\ LET enabled == IF ~CP.pcmCruise \/ ~CP.pcmCruiseSpeed
                    THEN CS.accEnabled ELSE cs_out.cruiseState.enabled
         mads == IF ~CI.enable_mads
                 THEN IF enabled /\ ~CS.out.cruiseState.enabled THEN TRUE
                      ELSE IF ~enabled /\ CS.out.cruiseState.enabled THEN FALSE
                      ELSE CS.madsEnabled
                 ELSE CS.madsEnabled
         exp == IF CP.openpilotLongitudinalControl
                THEN toggle_exp_mode(CI, param_s, CS.params_list.experimental_mode, gap_button)
                ELSE [CI |-> CI, param_s |-> param_s]
         allowed == IF LatSuppressed(cs_out) THEN FALSE ELSE gear_allowed
         dbb == IF CommonStatePedal(cs_out, CS.out, CI.disengage_on_accelerator) /\ mads
                THEN TRUE ELSE CS.disengageByBrake
     IN /\ CI' = exp.CI
        /\ param_s' = exp.param_s
        /\ CS' = [CS EXCEPT !.madsEnabled = mads,
                            !.control_initialized = TRUE,
                            !.disengageByBrake = dbb]
        /\ cs_out' = [cs_out EXCEPT
             !.cruiseState.enabled = enabled,
             !.belowLaneChangeSpeed =
                 (cs_out.vEgo < lane_change_speed_min) /\ CS.params_list.below_speed_pause,
             !.latActive = allowed,
             !.madsEnabled = mads,
             !.accEnabled = CS.accEnabled,
             !.disengageByBrake = dbb,
             !.brakeLightsDEPRECATED = @ \/ cs_out.brakePressed \/ cs_out.brakeHoldActive
                                         \/ cs_out.parkingBrake \/ cs_out.regenBraking]
        /\ call' = [op |-> "get_sp_common_state", ret |-> FALSE, gear_allowed |-> gear_allowed]
  /\ UNCHANGED <<accel_controller, CP, events, now, hist>>

-----------------------------------------------------------------------------
(* create_common_events *)

\* variant: no grace for an unknown gear
WrongGearMut(cs, extra_gears, gear_warning) ==
  /\ cs.gearShifter # "drive"
  /\ cs.gearShifter \notin extra_gears

\* the wrong-gear test; extra_gears is the set of excepted gears (None is the empty set)
WrongGear(cs, extra_gears, gear_warning) ==
  /\ cs.gearShifter # "drive"
  /\ cs.gearShifter \notin extra_gears
  /\ ~(cs.gearShifter = "unknown" /\ gear_warning < GearWarningTicks)

\* variant: the event in every gear
SeatbeltEventMut(cs) == cs.seatbeltUnlatched

\* seatbeltNotLatched is emitted
SeatbeltEvent(cs) == cs.seatbeltUnlatched /\ cs.gearShifter # "park"

\* variant: madsEnabled is not looked at
BrakeHoldDisengageMut(cs) == cs.brakeHoldActive /\ CP.openpilotLongitudinalControl

\* brake hold marks the message as disengaged by brake
BrakeHoldDisengage(cs) ==
  cs.brakeHoldActive /\ CP.openpilotLongitudinalControl /\ cs.madsEnabled

\* variant: only the first tick of a fault is suppressed
NoSteerWarningMut(pressed, prev_fault, no_steer_warning) == pressed /\ ~prev_fault

\* a temporary fault is not reported: the wheel is pressed, and the fault is new or
\* was not reported in the previous call either
NoSteerWarning(pressed, prev_fault, no_steer_warning) ==
  pressed /\ (~prev_fault \/ no_steer_warning)

\* variant: the silent warning is not latched
SilentSteerWarningMut(cur, fault, ignore, silent) == IF fault THEN cur ELSE FALSE

\* the new value of silent_steer_warning
SilentSteerWarning(cur, fault, ignore, silent) ==
  IF fault
  THEN IF ignore THEN cur ELSE (IF silent THEN TRUE ELSE cur)
  ELSE FALSE

\* c is the CarControl of the tick (latActive, longActive)
create_common_events(c, extra_gears, pcm_enable, allow_enable) ==
  /\ InTick
  /\ LET cs == cs_out
         e1 == AddIf(cs.doorOpen /\ (c.latActive \/ c.longActive), <<>>, "doorOpen")
         e2 == AddIf(SeatbeltEvent(cs), e1, "seatbeltNotLatched")
         e3 == IF WrongGear(cs, extra_gears, CI.gear_warning)
               THEN IF cs.vEgo < SilentGearSpeed
                    THEN EventsAdd(e2, "silentWrongGear")
                    ELSE EventsAdd(e2, "wrongGear")
               ELSE e2
         e4 == IF cs.gearShifter = "reverse"
               THEN IF ~CS.params_list.reverse_dm_cam /\ cs.vEgo < SilentGearSpeed
                    THEN EventsAdd(e3, "spReverseGear")
                    ELSE IF cs.vEgo >= SilentGearSpeed
                    THEN EventsAdd(e3, "reverseGear")
                    ELSE e3
               ELSE e3
         e5 == AddIf(~cs.cruiseState.available /\ cs.cruiseState.enabled, e4, "wrongCarMode")
         e6 == AddIf(cs.espDisabled, e5, "espDisabled")
         e7 == AddIf(cs.espActive, e6, "espActive")
         e8 == AddIf(cs.stockFcw, e7, "stockFcw")
         e9 == AddIf(cs.stockAeb, e8, "stockAeb")
         e10 == AddIf(cs.vEgo > MAX_CTRL_SPEED, e9, "speedTooHigh")
         e11 == AddIf(cs.cruiseState.nonAdaptive, e10, "wrongCruiseMode")
         hold == cs.brakeHoldActive /\ CP.openpilotLongitudinalControl
         e12 == IF hold
                THEN IF cs.cruiseState.enabled
                     THEN EventsAdd(e11, "brakeHold")
                     ELSE EventsAdd(e11, "silentBrakeHold")
                ELSE e11
         e13 == AddIf(cs.parkingBrake, e12, "parkBrake")
         e14 == AddIf(cs.accFaulted, e13, "accFaulted")
         e15 == AddIf(cs.steeringPressed, e14, "steerOverride")
         e16 == AddIf(cs.brakePressed /\ cs.standstill /\ cs.cruiseState.enabled,
                      e15, "preEnableStandstill")
         e17 == AddIf(cs.gasPressed /\ cs.cruiseState.enabled, e16, "gasPressedOverride")
         gear_warning == IF cs.gearShifter = "unknown"
                         THEN SatInc(CI.gear_warning, GearWarningTicks) ELSE 0
         steering_unpressed == IF cs.steeringPressed THEN 0
                               ELSE SatInc(CI.steering_unpressed, SteerUnpressedTicks)
         ignore == NoSteerWarning(cs.steeringPressed, CS.out.steerFaultTemporary,
                                  CI.no_steer_warning)
         silent == CI.silent_steer_warning \/ cs.standstill
                   \/ steering_unpressed < SteerUnpressedTicks
         e18 == IF cs.steerFaultTemporary /\ ~ignore
                THEN IF silent
                     THEN EventsAdd(e17, "steerTempUnavailableSilent")
                     ELSE EventsAdd(e17, "steerTempUnavailable")
                ELSE e17
         e19 == AddIf(cs.steerFaultPermanent, e18, "steerUnavailable")
         e20 == IF pcm_enable
                THEN IF cs.cruiseState.enabled /\ ~CS.out.cruiseState.enabled /\ allow_enable
                     THEN EventsAdd(e19, "pcmEnable")
                     ELSE IF ~cs.cruiseState.enabled
                     THEN EventsAdd(e19, "pcmDisable")
                     ELSE e19
                ELSE e19
     IN /\ events' = [owner |-> "create_common_events", list |-> e20]
        /\ cs_out' = [cs_out EXCEPT !.disengageByBrake =
                        IF BrakeHoldDisengage(cs) THEN TRUE ELSE @]
        /\ CI' = [CI EXCEPT
             !.gear_warning = gear_warning,
             !.steering_unpressed = steering_unpressed,
             !.no_steer_warning = cs.steerFaultTemporary /\ ignore,
             !.silent_steer_warning =
                 SilentSteerWarning(@, cs.steerFaultTemporary, ignore, silent)]
  /\ call' = Called("create_common_events", FALSE)
  /\ hist' = IF hist.watch = "steer"
             THEN [hist EXCEPT !.silent_seen =
                     @ \/ Has(events'.list, "steerTempUnavailableSilent")]
             ELSE hist
  /\ UNCHANGED <<accel_controller, CP, CS, param_s, now>>

-----------------------------------------------------------------------------
(* create_sp_events *)

\* variant: the accelerator counts as well
BrakeActiveMut(cs) ==
  cs.brakePressed \/ cs.brakeHoldActive \/ cs.parkingBrake \/ cs.regenBraking
    \/ cs.gasPressed

\* disengageByBrake is cleared when none of these holds
BrakeActive(cs) ==
  cs.brakePressed \/ cs.brakeHoldActive \/ cs.parkingBrake \/ cs.regenBraking

\* variant: the cancel latch is not looked at
sp_cancel_buttonMut(st, mads) ==
  IF ~mads
  THEN [st EXCEPT !.events = EventsAdd(@, "buttonCancel")]
  ELSE [st EXCEPT !.cruise_cancelled_btn = TRUE,
                  !.events = EventsAdd(@, "manualLongitudinalRequired")]

\* the cancel button: st is the loop's state (events, cruise_cancelled_btn, enable flags)
sp_cancel_button(st, mads) ==
  IF ~mads
  THEN [st EXCEPT !.events = EventsAdd(@, "buttonCancel")]
  ELSE IF ~st.cruise_cancelled_btn
  THEN [st EXCEPT !.cruise_cancelled_btn = TRUE,
                  !.events = EventsAdd(@, "manualLongitudinalRequired")]
  ELSE st

\* variant: the MADS button asks to enable whenever steering assist is armed
sp_buttonMut(st, b, cs, enable_buttons) ==
  LET s1 == IF ~CP.pcmCruise /\ b.type \in enable_buttons /\ ~b.pressed
            THEN [st EXCEPT !.enable_pressed = TRUE, !.enable_pressed_long = TRUE]
            ELSE st
      s2 == IF b.type = "cancel" THEN sp_cancel_button(s1, cs.madsEnabled) ELSE s1
      s3 == IF b.type = "altButton1" /\ b.pressed /\ CI.enable_mads
            THEN IF ~cs.madsEnabled
                 THEN IF ~cs.cruiseState.enabled
                      THEN [s2 EXCEPT !.events = EventsAdd(@, "buttonCancel")]
                      ELSE [s2 EXCEPT !.events = EventsAdd(@, "manualSteeringRequired")]
                 ELSE [s2 EXCEPT !.enable_pressed = TRUE]
            ELSE s2
  IN s3

\* one iteration of the loop over cs_out.buttonEvents
sp_button(st, b, cs, enable_buttons) ==
  LET s1 == IF ~CP.pcmCruise /\ b.type \in enable_buttons /\ ~b.pressed
            THEN [st EXCEPT !.enable_pressed = TRUE, !.enable_pressed_long = TRUE]
            ELSE st
      s2 == IF b.type = "cancel" THEN sp_cancel_button(s1, cs.madsEnabled) ELSE s1
      s3 == IF b.type = "altButton1" /\ b.pressed /\ CI.enable_mads
            THEN IF ~cs.madsEnabled
                 THEN IF ~cs.cruiseState.enabled
                      THEN [s2 EXCEPT !.events = EventsAdd(@, "buttonCancel")]
                      ELSE [s2 EXCEPT !.events = EventsAdd(@, "manualSteeringRequired")]
                 ELSE IF ~cs.cruiseState.enabled
                      THEN [s2 EXCEPT !.enable_pressed = TRUE]
                      ELSE s2
            ELSE s2
  IN s3

RECURSIVE sp_button_loop(_, _, _, _, _)
sp_button_loop(bs, i, st, cs, enable_buttons) ==
  IF i > Len(bs) THEN st
  ELSE sp_button_loop(bs, i + 1, sp_button(st, bs[i], cs, enable_buttons), cs, enable_buttons)

\* events is the Events object create_common_events returned in this tick;
\* main_buttons is any(CS.main_buttons), a field of the per-make car state
create_sp_events(main_enabled, main_buttons, allow_enable, enable_buttons) ==
  /\ InTick
  /\ events.owner = "create_common_events"
  /\ LET clear == ~BrakeActive(cs_out)
         from_brake == clear /\ cs_out.disengageByBrake /\ cs_out.madsEnabled
         cs1 == [cs_out EXCEPT !.disengageByBrake = IF clear THEN FALSE ELSE @]
         st0 == [events |-> events.list,
                 cruise_cancelled_btn |-> CI.cruise_cancelled_btn,
                 enable_pressed |-> from_brake,
                 enable_pressed_long |-> FALSE]
         st1 == sp_button_loop(cs1.buttonEvents, 1, st0, cs1, enable_buttons)
         rising == cs1.cruiseState.enabled /\ ~CS.out.cruiseState.enabled /\ allow_enable
         e1 == IF CP.pcmCruise /\ main_enabled /\ main_buttons
                  /\ ~cs1.cruiseState.enabled /\ ~cs1.madsEnabled
               THEN EventsAdd(st1.events, "buttonCancel")
               ELSE st1.events
         e2 == IF CP.pcmCruise /\ ~rising /\ ~cs1.cruiseState.enabled /\ ~cs1.madsEnabled
               THEN EventsAdd(e1, "buttonCancel")
               ELSE e1
         mads_off == CP.pcmCruise /\ ~rising /\ ~cs1.cruiseState.enabled
                     /\ cs1.madsEnabled /\ ~CI.enable_mads
         enable_pressed == st1.enable_pressed \/ (CP.pcmCruise /\ rising)
         enable_pressed_long == st1.enable_pressed_long \/ (CP.pcmCruise /\ rising)
         e3 == IF enable_pressed
               THEN IF from_brake
                    THEN EventsAdd(e2, "silentButtonEnable")
                    ELSE EventsAdd(e2, "buttonEnable")
               ELSE e2
         e4 == AddIf(cs1.disengageByBrake /\ ~cs1.standstill /\ enable_pressed_long,
                     e3, "cruiseEngageBlocked")
     IN /\ events' = [owner |-> "create_sp_events", list |-> e4]
        /\ cs_out' = [cs1 EXCEPT !.madsEnabled = IF mads_off THEN FALSE ELSE @]
        /\ CS' = [CS EXCEPT !.disengageByBrake = IF clear THEN FALSE ELSE @]
        /\ CI' = [CI EXCEPT !.cruise_cancelled_btn = ~cs1.cruiseState.enabled]
  /\ call' = Called("create_sp_events", FALSE)
  /\ UNCHANGED <<accel_controller, CP, param_s, now, hist>>

-----------------------------------------------------------------------------
(* Specification of MADS arming: the tick boundary, the caller's request    *)
(* and the methods that decide whether steering assist is armed.            *)

Snapshot(available, gear) ==
  [NewMessage EXCEPT !.cruiseState.available = available, !.gearShifter = gear]

MadsSnapshots == {Snapshot(a, g) : a \in BOOLEAN, g \in {"drive", "low", "park"}}

MadsParamLists ==
  {[DefaultParams EXCEPT !.mads_main_toggle = t, !.acc_mads_combo = c] :
     t \in BOOLEAN, c \in BOOLEAN}

DefaultCP ==
  [pcmCruise |-> TRUE, pcmCruiseSpeed |-> TRUE, openpilotLongitudinalControl |-> FALSE]

InitMads == Constructed({DefaultCP}, {<<FALSE, TRUE>>}, MadsParamLists, "window")

NextMads ==
  \/ update(MadsSnapshots, MadsParamLists, WindowTicks + ExtraTicks)
  \/ caller_set_madsEnabled
  \/ \E e \in BOOLEAN : get_acc_mads(e, CS.accEnabled, CS.madsEnabled)
  \/ get_sp_started_mads

SpecMads == InitMads /\ [][NextMads]_vars

-----------------------------------------------------------------------------
(* Properties of the arm-pending debounce *)

StartedCalled == call.op = "get_sp_started_mads"

\* the call was not answered by the configuration bypass of get_sp_started_mads
MainToggleNoCombo == CS.params_list.mads_main_toggle /\ ~CI.prev_acc_mads_combo

InWindow == hist.win_start >= 0 /\ now < hist.win_start + WindowTicks

ResetByGearExit == CI.last_mads_init > 0 /\ CI.last_mads_init > hist.win_start

\* C2 as stated, for the configuration that uses the window: after a tick in a
\* non-forward gear, get_sp_started_mads returns False until 1.0 second has elapsed
\* since that tick, also when steering assist had been armed before the gear exit.
C2_GearExitRestartsWindow ==
  (StartedCalled /\ MainToggleNoCombo /\ ResetByGearExit
     /\ now < CI.last_mads_init + WindowTicks) => ~call.ret

-----------------------------------------------------------------------------
(* Cruise availability flapping within three ticks *)

InitFlap == Constructed({DefaultCP}, {<<FALSE, TRUE>>}, MadsParamLists, "flap")

NextFlap ==
  \/ update(MadsSnapshots, MadsParamLists, WindowTicks + ExtraTicks)
  \/ caller_set_madsEnabled
  \/ \E e \in BOOLEAN : get_acc_mads(e, CS.accEnabled, CS.madsEnabled)
  \/ get_sp_started_mads

SpecFlap == InitFlap /\ [][NextFlap]_vars

\* the current tick is the third of: not available, available, not available, in drive
FlapThirdTick ==
  /\ hist.p = 2
  /\ ~cs_out.cruiseState.available
  /\ cs_out.gearShifter = "drive"

-----------------------------------------------------------------------------
(* Specification of lateral suppression and of the first ticks after        *)
(* construction: gear, door and seat belt vary.                             *)

\* ticks of a behaviour that does not wait for the arm-pending window
ShortTicks == 2

LatSnapshots ==
  {[Snapshot(a, g) EXCEPT !.doorOpen = d, !.seatbeltUnlatched = b] :
     a \in BOOLEAN, g \in {"drive", "park", "reverse"}, d \in BOOLEAN, b \in BOOLEAN}

MainToggleParams == {[DefaultParams EXCEPT !.mads_main_toggle = TRUE]}

\* the CarControl of the tick
CarControls == {[latActive |-> l, longActive |-> FALSE] : l \in BOOLEAN}

InitLat == Constructed({DefaultCP}, {<<FALSE, TRUE>>}, MainToggleParams, "none")

NextLat ==
  \/ update(LatSnapshots, MainToggleParams, ShortTicks)
  \/ caller_set_madsEnabled
  \/ get_sp_cruise_main_state
  \/ get_sp_started_mads
  \/ \E g \in BOOLEAN : get_sp_common_state(g, FALSE, 0)
  \/ \E c \in CarControls : create_common_events(c, {}, FALSE, TRUE)
  \/ create_sp_events(FALSE, FALSE, TRUE, DefaultEnableButtons)

SpecLat == InitLat /\ [][NextLat]_vars

CommonStateCalled == call.op = "get_sp_common_state"

\* C4: after get_sp_common_state, latActive is False when the gear is park or reverse,
\* or a door is open, or the seat belt is unlatched outside park, whatever madsEnabled,
\* accEnabled and gear_allowed are; otherwise latActive is the gear_allowed argument.
C4_LatActive ==
  CommonStateCalled =>
    cs_out.latActive =
      IF \/ cs_out.gearShifter = "park"
         \/ cs_out.gearShifter = "reverse"
         \/ cs_out.doorOpen
         \/ (cs_out.seatbeltUnlatched /\ cs_out.gearShifter # "park")
      THEN FALSE
      ELSE call.gear_allowed

\* armed and allowed by the caller, but a door is open in drive
C4_Witness ==
  /\ CommonStateCalled
  /\ call.gear_allowed
  /\ cs_out.madsEnabled
  /\ cs_out.gearShifter = "drive" /\ cs_out.doorOpen /\ ~cs_out.seatbeltUnlatched
  /\ ~cs_out.latActive

EventsMade == events.owner # "none"

\* C5 as stated: with gear = park and the seat belt unlatched, the tick's events
\* include seatbeltNotLatched and latActive is False.
C5_Original ==
  (EventsMade /\ cs_out.gearShifter = "park" /\ cs_out.seatbeltUnlatched) =>
    (Has(events.list, "seatbeltNotLatched") /\ ~cs_out.latActive)

\* C5 amended: with the seat belt unlatched latActive is False in every gear and
\* whatever the armed state, and the tick's events include seatbeltNotLatched exactly
\* when the gear is not park: with gear = park the event is not emitted.
C5_SeatbeltInPark ==
  cs_out.seatbeltUnlatched =>
    /\ ~cs_out.latActive
    /\ EventsMade => (Has(events.list, "seatbeltNotLatched") <=> cs_out.gearShifter # "park")

\* park, belt unlatched, armed, both event methods have run
C5_Witness ==
  /\ events.owner = "create_sp_events"
  /\ cs_out.gearShifter = "park" /\ cs_out.seatbeltUnlatched
  /\ cs_out.madsEnabled
  /\ ~cs_out.latActive
  /\ ~Has(events.list, "seatbeltNotLatched")

\* C8 as stated: madsEnabledInit implies control_initialized in every reachable state.
C8_InitPendingImpliesInitialized == CI.madsEnabledInit => CS.control_initialized

\* C9 as stated: right after construction every engagement flag is false, the
\* cruise-cancel latch included, and the gear-warning counter is 0.
C9_Original ==
  call.op = "init" =>
    /\ ~CS.accEnabled /\ ~CS.madsEnabled /\ ~CS.disengageByBrake
    /\ ~CS.control_initialized
    /\ ~CI.madsEnabledInit
    /\ ~CI.cruise_cancelled_btn
    /\ CI.gear_warning = 0

\* C9 amended: right after construction accEnabled, madsEnabled, disengageByBrake,
\* control_initialized and madsEnabledInit are false and the gear-warning counter is
\* 0, while the cruise-cancel latch cruise_cancelled_btn is true.
C9_InitialState ==
  call.op = "init" =>
    /\ ~CS.accEnabled /\ ~CS.madsEnabled /\ ~CS.disengageByBrake
    /\ ~CS.control_initialized
    /\ ~CI.madsEnabledInit
    /\ CI.cruise_cancelled_btn
    /\ CI.gear_warning = 0

C9_Witness == call.op = "init" /\ now = 0 /\ CI.cruise_cancelled_btn

-----------------------------------------------------------------------------
(* Specification of the disengage-by-brake flag: pedals, brake hold and     *)
(* the parking brake vary, with and without openpilot longitudinal control. *)

\* one braking source at a time; brake hold and parking brake hold a stopped car
PedalSnapshots ==
  {m \in {[Snapshot(TRUE, "drive") EXCEPT
             !.gasPressed = g, !.brakePressed = b, !.regenBraking = r,
             !.standstill = s, !.brakeHoldActive = h, !.parkingBrake = p] :
            g \in BOOLEAN, b \in BOOLEAN, r \in BOOLEAN,
            s \in BOOLEAN, h \in BOOLEAN, p \in BOOLEAN} :
     /\ ~(m.brakePressed /\ m.regenBraking)
     /\ m.brakeHoldActive => m.standstill
     /\ m.parkingBrake => m.standstill}

PedalCPs == {[DefaultCP EXCEPT !.openpilotLongitudinalControl = l] : l \in BOOLEAN}

InitPedal ==
  Constructed(PedalCPs, {<<d, TRUE>> : d \in BOOLEAN}, {DefaultParams}, "none")

NextPedal ==
  \/ update(PedalSnapshots, {DefaultParams}, ShortTicks)
  \/ caller_set_madsEnabled
  \/ get_sp_common_state(TRUE, FALSE, 0)
  \/ create_common_events([latActive |-> FALSE, longActive |-> FALSE], {}, FALSE, TRUE)
  \/ create_sp_events(FALSE, FALSE, TRUE, DefaultEnableButtons)

SpecPedal == InitPedal /\ [][NextPedal]_vars

\* the flag, in the persistent car state or in the tick's message
DisengageByBrake == CS.disengageByBrake \/ cs_out.disengageByBrake

DisengageByBrakeSet == ~DisengageByBrake /\ DisengageByBrake'

\* C6 as stated: disengage_by_brake changes from false to true only in a tick where
\* madsEnabled is true and a qualifying pedal condition holds (accelerator rising edge
\* with accelerator-disengage configured, brake or regenerative braking on its rising
\* edge or while not at standstill).
C6_Original ==
  [][DisengageByBrakeSet =>
       /\ cs_out'.madsEnabled
       /\ get_sp_pedal_disengage(cs_out, CS.out, CI.disengage_on_accelerator)]_vars

\* C6 amended: disengage_by_brake changes from false to true only in a tick where
\* madsEnabled is true and either a qualifying pedal condition holds (accelerator
\* rising edge with accelerator-disengage configured, brake or regenerative braking
\* on its rising edge or while not at standstill) or brake hold is active under
\* openpilot longitudinal control; it is never set while madsEnabled is false.
C6_SetOnlyWhileArmed ==
  [][DisengageByBrakeSet =>
       /\ cs_out'.madsEnabled
       /\ \/ get_sp_pedal_disengage(cs_out, CS.out, CI.disengage_on_accelerator)
          \/ (cs_out.brakeHoldActive /\ CP.openpilotLongitudinalControl)]_vars

\* set by brake hold alone, no pedal pressed, in the first tick
C6_Witness ==
  /\ call.op = "create_common_events"
  /\ now = 1
  /\ cs_out.disengageByBrake /\ ~CS.disengageByBrake
  /\ cs_out.madsEnabled
  /\ cs_out.brakeHoldActive
  /\ ~cs_out.gasPressed /\ ~cs_out.brakePressed /\ ~cs_out.regenBraking

SpEventsCalled == call.op = "create_sp_events"

\* C7 as stated: on a tick in which none of brake, regenerative brake and accelerator
\* is pressed, disengage_by_brake is cleared in CS and in cs_out, whatever the other
\* signals of the snapshot are.
C7_Original ==
  (SpEventsCalled /\ ~cs_out.brakePressed /\ ~cs_out.regenBraking /\ ~cs_out.gasPressed)
    => (~CS.disengageByBrake /\ ~cs_out.disengageByBrake)

\* C7 amended: on a tick in which none of brake pedal, brake hold, parking brake and
\* regenerative braking is active, create_sp_events clears disengage_by_brake in CS and
\* in cs_out, whether or not the accelerator is pressed.
C7_ClearedWhenNoBrake ==
  (SpEventsCalled /\ ~cs_out.brakePressed /\ ~cs_out.brakeHoldActive
                  /\ ~cs_out.parkingBrake /\ ~cs_out.regenBraking)
    => (~CS.disengageByBrake /\ ~cs_out.disengageByBrake)

\* the flag was set (the enable comes from the brake) and is now cleared, with the
\* accelerator pressed
C7_Witness ==
  /\ SpEventsCalled
  /\ Has(events.list, "silentButtonEnable")
  /\ cs_out.gasPressed
  /\ ~CS.disengageByBrake /\ ~cs_out.disengageByBrake

-----------------------------------------------------------------------------
(* Specification of the button events: the cruise state and the decoded     *)
(* button events vary, with and without MADS and stock cruise.              *)

\* the buttons that cancel: the cancel button and the MADS button
Buttons ==
  {[type |-> "cancel", pressed |-> TRUE], [type |-> "altButton1", pressed |-> TRUE]}

ButtonEvents == UNION {[1..n -> Buttons] : n \in 0..MaxButtons}

ButtonSnapshots ==
  {[Snapshot(TRUE, "drive") EXCEPT !.cruiseState.enabled = e, !.buttonEvents = bs] :
     e \in BOOLEAN, bs \in ButtonEvents}

ButtonCPs == {[DefaultCP EXCEPT !.pcmCruise = c] : c \in BOOLEAN}

InitButtons ==
  Constructed(ButtonCPs, {<<FALSE, m>> : m \in BOOLEAN}, {DefaultParams}, "none")

NextButtons ==
  \/ update(ButtonSnapshots, {DefaultParams}, ShortTicks)
  \/ caller_set_madsEnabled
  \/ caller_set_accEnabled
  \/ get_sp_common_state(TRUE, FALSE, 0)
  \/ create_common_events([latActive |-> FALSE, longActive |-> FALSE], {}, FALSE, TRUE)
  \/ create_sp_events(FALSE, FALSE, TRUE, DefaultEnableButtons)

SpecButtons == InitButtons /\ [][NextButtons]_vars

CountOf(ev, name) == Cardinality({i \in DOMAIN ev : ev[i] = name})

CancelCount(bs) == Cardinality({i \in DOMAIN bs : bs[i].type = "cancel"})

\* a call of create_sp_events on a message with a cancel button event
CancelStep ==
  /\ events.owner = "create_common_events"
  /\ call'.op = "create_sp_events"
  /\ CancelCount(cs_out.buttonEvents) >= 1

\* C10 as stated: a cancel event processed while steering assist is armed emits
\* manualLongitudinalRequired and not buttonCancel on its first occurrence (cancel
\* latch clear), and buttonCancel on a repeat (latch set, or a second cancel of the
\* tick); a cancel while not armed emits buttonCancel.
C10_Original ==
  [][CancelStep =>
       /\ (cs_out.madsEnabled /\ ~CI.cruise_cancelled_btn) =>
             /\ Has(events'.list, "manualLongitudinalRequired")
             /\ CancelCount(cs_out.buttonEvents) = 1 => ~Has(events'.list, "buttonCancel")
       /\ (cs_out.madsEnabled
             /\ (CI.cruise_cancelled_btn \/ CancelCount(cs_out.buttonEvents) >= 2)) =>
             Has(events'.list, "buttonCancel")
       /\ ~cs_out.madsEnabled => Has(events'.list, "buttonCancel")]_vars

\* C10 amended: a cancel event processed while steering assist is armed never emits
\* buttonCancel; it emits manualLongitudinalRequired once if the cancel latch
\* cruise_cancelled_btn is clear (first occurrence) and nothing if the latch is set
\* (a repeat, or any cancel after a tick that ended with cruise not enabled, or right
\* after construction).  Every cancel while not armed emits buttonCancel and no
\* manualLongitudinalRequired.
C10_CancelButton ==
  [][CancelStep =>
       /\ cs_out.madsEnabled =>
             /\ ~Has(events'.list, "buttonCancel")
             /\ CountOf(events'.list, "manualLongitudinalRequired") =
                  IF CI.cruise_cancelled_btn THEN 0 ELSE 1
       /\ ~cs_out.madsEnabled =>
             /\ CountOf(events'.list, "buttonCancel") >= CancelCount(cs_out.buttonEvents)
             /\ ~Has(events'.list, "manualLongitudinalRequired")]_vars

\* armed, two cancel events in the tick: the first emitted manualLongitudinalRequired,
\* the repeat emitted nothing
C10_Witness ==
  /\ call.op = "create_sp_events"
  /\ cs_out.madsEnabled
  /\ CancelCount(cs_out.buttonEvents) = 2
  /\ CountOf(events.list, "manualLongitudinalRequired") = 1
  /\ ~Has(events.list, "buttonCancel")

-----------------------------------------------------------------------------
(* The events of one tick *)

NoDuplicates(ev) == \A i, j \in DOMAIN ev : ev[i] = ev[j] => i = j

\* C11: the event list of one tick (create_common_events, then create_sp_events on the
\* same Events object) never contains the same event name twice, for any snapshot,
\* configuration and button-event sequence.
C11_NoDuplicateEvents == events.owner = "create_sp_events" => NoDuplicates(events.list)

-----------------------------------------------------------------------------
(* Specification of the steady state: the decoder may repeat its message,   *)
(* without button events, and the events of consecutive ticks are compared. *)

SteadySnapshots ==
  {[Snapshot(TRUE, g) EXCEPT !.cruiseState.enabled = e, !.steerFaultTemporary = f,
                             !.steeringPressed = p] :
     g \in {"drive", "unknown"}, e \in BOOLEAN, f \in BOOLEAN, p \in BOOLEAN}

InitSteady == Constructed({DefaultCP}, {<<FALSE, TRUE>>}, {DefaultParams}, "steady")

\* the methods run at most once in a tick, in the order of the per-tick algorithm
NextSteady ==
  \/ update(SteadySnapshots, {DefaultParams}, ExtraTicks + 1)
  \/ call.op = "update" /\ caller_set_madsEnabled
  \/ call.op \in {"update", "caller"} /\ get_sp_common_state(TRUE, FALSE, 0)
  \/ /\ call.op \in {"update", "caller", "get_sp_common_state"}
     /\ create_common_events([latActive |-> TRUE, longActive |-> FALSE], {}, TRUE, TRUE)
  \/ /\ call.op = "create_common_events"
     /\ create_sp_events(FALSE, FALSE, TRUE, DefaultEnableButtons)

SpecSteady == InitSteady /\ [][NextSteady]_vars

\* the events the spec calls edge-triggered
GearWarningEvents == {"wrongGear", "silentWrongGear"}

ButtonEventNames ==
  {"buttonCancel", "buttonEnable", "silentButtonEnable", "cruiseEngageBlocked",
   "manualLongitudinalRequired", "manualSteeringRequired"}

EventSet == {events.list[i] : i \in DOMAIN events.list}

\* the current tick and the one before it got the message of the tick before them,
\* and both ended with the events of create_sp_events
SteadyPair == hist.same = 2 /\ hist.prevDone /\ events.owner = "create_sp_events"

\* C12 as stated: in steady state the two ticks produce the same events, except the
\* button and gear-warning events, and those fire at most once per edge: with no
\* edge between the two ticks, none of them is in the events of both ticks.
C12_Original ==
  SteadyPair =>
    /\ EventSet \ (GearWarningEvents \cup ButtonEventNames)
         = hist.prevEvents \ (GearWarningEvents \cup ButtonEventNames)
    /\ (EventSet \cap hist.prevEvents) \cap (GearWarningEvents \cup ButtonEventNames) = {}

\* C12 amended: in steady state the two ticks produce the same events, except the
\* wrong-gear events (wrongGear, silentWrongGear) and the button events.
C12_SteadyEvents ==
  SteadyPair =>
    EventSet \ (GearWarningEvents \cup ButtonEventNames)
      = hist.prevEvents \ (GearWarningEvents \cup ButtonEventNames)

\* a steady pair of ticks in unknown gear with a temporary steer fault: the steer
\* event is in both, the wrong-gear event only in the second
C12_Witness ==
  /\ SteadyPair
  /\ cs_out.steerFaultTemporary
  /\ "steerTempUnavailableSilent" \in EventSet \cap hist.prevEvents
  /\ "silentWrongGear" \in EventSet \ hist.prevEvents

-----------------------------------------------------------------------------
(* Specification of the wrong-gear event: gear, speed and cruise vary, with *)
(* one excepted gear.                                                       *)

\* the extra_gears argument of the make (low is excepted, sport is not)
ExtraGears == {"low"}

GearSnapshots ==
  {[Snapshot(TRUE, g) EXCEPT !.vEgo = v, !.cruiseState.enabled = e] :
     g \in {"drive", "low", "sport", "park", "unknown"},
     v \in {0, SilentGearSpeed}, e \in BOOLEAN}

InitGear == Constructed({DefaultCP}, {<<FALSE, TRUE>>}, {DefaultParams}, "none")

NextGear ==
  \/ update(GearSnapshots, {DefaultParams}, GearWarningTicks + 1)
  \/ create_common_events([latActive |-> FALSE, longActive |-> FALSE], ExtraGears, TRUE, TRUE)
  \/ create_sp_events(FALSE, FALSE, TRUE, DefaultEnableButtons)

SpecGear == InitGear /\ [][NextGear]_vars

\* a call of create_common_events
CommonEventsStep == call'.op = "create_common_events"

\* the unknown gear has been seen in fewer than int(0.5/DT_CTRL) calls in a row
GearGrace == cs_out.gearShifter = "unknown" /\ CI.gear_warning < GearWarningTicks

\* C13 as stated: a wrong-gear event is emitted exactly when the gear is not an allowed
\* forward gear (nor in extra_gears) and cruise is active: wrongGear at speed >= 5,
\* silentWrongGear at speed < 5 or while the grace counter of the unknown gear runs;
\* with an allowed forward gear or cruise inactive, neither is emitted.
C13_Original ==
  [][CommonEventsStep =>
       LET disallowed == cs_out.gearShifter \notin (FORWARD_GEARS \cup ExtraGears)
           active == cs_out.cruiseState.enabled
       IN /\ Has(events'.list, "wrongGear") <=>
               (disallowed /\ active /\ cs_out.vEgo >= SilentGearSpeed /\ ~GearGrace)
          /\ Has(events'.list, "silentWrongGear") <=>
               (disallowed /\ active /\ (cs_out.vEgo < SilentGearSpeed \/ GearGrace))]_vars

\* C13 amended: a wrong-gear event is emitted exactly when the gear is not drive and
\* not in extra_gears, and is not the unknown gear within its grace (fewer than
\* int(0.5/DT_CTRL) calls in a row with the unknown gear before this one), whether or
\* not cruise is active: wrongGear at speed >= 5, silentWrongGear at speed < 5.  In
\* drive, in a gear of extra_gears and during the grace, neither is emitted.
C13_WrongGear ==
  [][CommonEventsStep =>
       LET wrong == /\ cs_out.gearShifter \notin ({"drive"} \cup ExtraGears)
                    /\ ~GearGrace
       IN /\ Has(events'.list, "wrongGear") <=>
               (wrong /\ cs_out.vEgo >= SilentGearSpeed)
          /\ Has(events'.list, "silentWrongGear") <=>
               (wrong /\ cs_out.vEgo < SilentGearSpeed)]_vars

\* the unknown gear after its grace, with cruise inactive: the loud event
C13_Witness ==
  /\ call.op = "create_common_events"
  /\ cs_out.gearShifter = "unknown"
  /\ CI.gear_warning = GearWarningTicks
  /\ ~cs_out.cruiseState.enabled
  /\ cs_out.vEgo >= SilentGearSpeed
  /\ Has(events.list, "wrongGear")

-----------------------------------------------------------------------------
(* CarStateBase: the debounce filters *)

FilterCalled(op, args, ret) ==
  [op |-> op, ret |-> ret, gear_allowed |-> FALSE, args |-> args]

\* variant: the counter is not floored
BlinkerDecayMut(cnt) == cnt - 1

\* max(cnt - 1, 0)
BlinkerDecay(cnt) == IF cnt - 1 > 0 THEN cnt - 1 ELSE 0

update_blinker_from_lamp(blinker_time, left_blinker_lamp, right_blinker_lamp) ==
  /\ CS' = [CS EXCEPT
       !.left_blinker_cnt = IF left_blinker_lamp THEN blinker_time ELSE BlinkerDecay(@),
       !.right_blinker_cnt = IF right_blinker_lamp THEN blinker_time ELSE BlinkerDecay(@)]
  /\ call' = FilterCalled("update_blinker_from_lamp",
                          <<blinker_time, left_blinker_lamp, right_blinker_lamp>>,
                          <<CS'.left_blinker_cnt > 0, CS'.right_blinker_cnt > 0>>)
  /\ UNCHANGED <<accel_controller, CP, CI, cs_out, events, param_s, now, hist>>

\* clip(x, lo, hi) of numpy: minimum(maximum(x, lo), hi)
clip(x, lo, hi) == LET m == IF x > lo THEN x ELSE lo IN IF m < hi THEN m ELSE hi

\* variant: an unpressed tick resets the counter
SteeringPressedCntMut(cnt, steering_pressed, steering_pressed_min_count) ==
  IF steering_pressed THEN clip(cnt + 1, 0, steering_pressed_min_count * 2) ELSE 0

\* the new steering_pressed_cnt
SteeringPressedCnt(cnt, steering_pressed, steering_pressed_min_count) ==
  clip(cnt + (IF steering_pressed THEN 1 ELSE -1), 0, steering_pressed_min_count * 2)

update_steering_pressed(steering_pressed, steering_pressed_min_count) ==
  /\ CS' = [CS EXCEPT !.steering_pressed_cnt =
              SteeringPressedCnt(@, steering_pressed, steering_pressed_min_count)]
  /\ call' = FilterCalled("update_steering_pressed",
                          <<steering_pressed, steering_pressed_min_count>>,
                          CS'.steering_pressed_cnt > steering_pressed_min_count)
  /\ UNCHANGED <<accel_controller, CP, CI, cs_out, events, param_s, now, hist>>

\* variant: the opposite counter is not zeroed
StalkCountersMut(l_cnt, r_cnt, l_prev, r_prev, blinker_time, left, right) ==
  LET l1 == IF left /\ ~l_prev THEN blinker_time ELSE l_cnt
      r2 == IF right /\ ~r_prev THEN blinker_time ELSE r_cnt
  IN <<BlinkerDecay(l1), BlinkerDecay(r2)>>

\* the new <<left_blinker_cnt, right_blinker_cnt>> of update_blinker_from_stalk
StalkCounters(l_cnt, r_cnt, l_prev, r_prev, blinker_time, left, right) ==
  LET r1 == IF left THEN 0 ELSE r_cnt
      l1 == IF left /\ ~l_prev THEN blinker_time ELSE l_cnt
      l2 == IF right THEN 0 ELSE l1
      r2 == IF right /\ ~r_prev THEN blinker_time ELSE r1
  IN <<BlinkerDecay(l2), BlinkerDecay(r2)>>

update_blinker_from_stalk(blinker_time, left_blinker_stalk, right_blinker_stalk) ==
  /\ LET c == StalkCounters(CS.left_blinker_cnt, CS.right_blinker_cnt,
                            CS.left_blinker_prev, CS.right_blinker_prev,
                            blinker_time, left_blinker_stalk, right_blinker_stalk)
     IN /\ CS' = [CS EXCEPT !.left_blinker_cnt = c[1],
                            !.right_blinker_cnt = c[2],
                            !.left_blinker_prev = left_blinker_stalk,
                            !.right_blinker_prev = right_blinker_stalk]
        /\ call' = FilterCalled("update_blinker_from_stalk",
                                <<blinker_time, left_blinker_stalk, right_blinker_stalk>>,
                                <<left_blinker_stalk \/ c[1] > 0,
                                  right_blinker_stalk \/ c[2] > 0>>)
  /\ hist' =
       IF hist.watch = "stalk"
       THEN [hist EXCEPT !.edge_calls =
               IF right_blinker_stalk THEN 0
               ELSE IF left_blinker_stalk /\ ~CS.left_blinker_prev THEN 1
               ELSE IF @ > 0 /\ @ <= blinker_time THEN @ + 1
               ELSE 0]
       ELSE hist
  /\ UNCHANGED <<accel_controller, CP, CI, cs_out, events, param_s, now>>

-----------------------------------------------------------------------------
(* SpecDebounce: the lamp filter and the steering filter of one make, whose
   blinker_time and steering_pressed_min_count are the same in every call *)

MaxBlinkerTime == 3
MaxMinCount == 3

MakeCP(blinker_time, steering_pressed_min_count) ==
  [f \in DOMAIN DefaultCP \cup {"blinker_time", "steering_pressed_min_count"} |->
     IF f = "blinker_time" THEN blinker_time
     ELSE IF f = "steering_pressed_min_count" THEN steering_pressed_min_count
     ELSE DefaultCP[f]]

MakeCPs ==
  {MakeCP(b, m) : b \in 0..MaxBlinkerTime, m \in 0..MaxMinCount}

InitDebounce == Constructed(MakeCPs, {<<FALSE, TRUE>>}, {DefaultParams}, "none")

NextDebounce ==
  \/ \E l, r \in BOOLEAN : update_blinker_from_lamp(CP.blinker_time, l, r)
  \/ \E p \in BOOLEAN : update_steering_pressed(p, CP.steering_pressed_min_count)

SpecDebounce == InitDebounce /\ [][NextDebounce]_vars

\* C14: the lamp filter keeps both blinker counters within [0, blinker_time] and the
\* steering filter keeps steering_pressed_cnt within [0, 2 * min_count].
C14_CounterBounds ==
  /\ CS.left_blinker_cnt \in 0..CP.blinker_time
  /\ CS.right_blinker_cnt \in 0..CP.blinker_time
  /\ CS.steering_pressed_cnt \in 0..(2 * CP.steering_pressed_min_count)

\* both bounds of a counter are met: a blinker counter at blinker_time with the other
\* decayed to 0, and a steering counter at 2 * min_count
C14_Witness ==
  /\ CP.blinker_time >= 2
  /\ CP.steering_pressed_min_count >= 1
  /\ CS.left_blinker_cnt = CP.blinker_time
  /\ CS.right_blinker_cnt = 0
  /\ call.op = "update_steering_pressed"
  /\ CS.steering_pressed_cnt = 2 * CP.steering_pressed_min_count

SteeringStep == call'.op = "update_steering_pressed" /\ call' # call

\* the steering filter's call made in this step, seen from the counter before it:
\* a spike against a saturated counter, or the return to the settled value after it
SpikeRejected ==
  LET m == CP.steering_pressed_min_count
      cnt == CS.steering_pressed_cnt
      pressed == call'.args[1]
  IN /\ (cnt = 2 * m /\ ~pressed) => call'.ret
     /\ (cnt = 2 * m - 1 /\ pressed) => call'.ret
     /\ (cnt = 0 /\ pressed) => ~call'.ret
     /\ (cnt = 1 /\ ~pressed) => ~call'.ret

\* C15 as stated: for every min_count >= 1 a single-tick spike against the settled
\* filter leaves the output unchanged, in both directions.
C15_Original ==
  [][(SteeringStep /\ CP.steering_pressed_min_count >= 1) => SpikeRejected]_vars

\* C15: for every min_count >= 2 a single-tick spike against the settled filter leaves
\* the output unchanged on the spike and on the return, in both directions; for
\* min_count = 1 this holds of a pressed spike against the settled unpressed filter.
C15_SpikeRejected ==
  [][SteeringStep =>
       /\ CP.steering_pressed_min_count >= 2 => SpikeRejected
       /\ (CP.steering_pressed_min_count = 1 /\ CS.steering_pressed_cnt = 0
           /\ call'.args[1]) => ~call'.ret]_vars

\* an unpressed spike against the saturated counter was filtered out
C15_Witness ==
  /\ call.op = "update_steering_pressed"
  /\ CP.steering_pressed_min_count >= 2
  /\ ~call.args[1]
  /\ CS.steering_pressed_cnt = 2 * CP.steering_pressed_min_count - 1
  /\ call.ret

-----------------------------------------------------------------------------
(* SpecStalk: the stalk filter of one make, whose blinker_time is the same in
   every call *)

MaxStalkTime == 8

StalkCPs == {MakeCP(b, 0) : b \in 0..MaxStalkTime}

InitStalk == Constructed(StalkCPs, {<<FALSE, TRUE>>}, {DefaultParams}, "stalk")

NextStalk ==
  \E l, r \in BOOLEAN : update_blinker_from_stalk(CP.blinker_time, l, r)

SpecStalk == InitStalk /\ [][NextStalk]_vars

StalkCalled == call.op = "update_blinker_from_stalk"

\* C16: after every call of update_blinker_from_stalk at most one blinker counter is
\* nonzero, and both outputs are true only in a call with both stalk inputs true.
C16_StalkExclusive ==
  /\ ~(CS.left_blinker_cnt # 0 /\ CS.right_blinker_cnt # 0)
  /\ (StalkCalled /\ call.ret[1] /\ call.ret[2]) => (call.args[2] /\ call.args[3])

\* both stalks were seen in one call: both outputs are true and only the right
\* counter runs
C16_Witness ==
  /\ StalkCalled
  /\ call.args[2] /\ call.args[3]
  /\ call.ret = <<TRUE, TRUE>>
  /\ CS.left_blinker_cnt = 0
  /\ CS.right_blinker_cnt > 1

\* C17: from the call with a rising edge of the left stalk on, the left output is true
\* in at least blinker_time consecutive calls, the right stalk not being seen.
C17_HeldForBlinkerTime ==
  (StalkCalled /\ hist.edge_calls \in 1..CP.blinker_time) => call.ret[1]

-----------------------------------------------------------------------------
(* CarStateBase: the speed filter.  The arithmetic is exact: after n updates the
   filter state v_ego_kf.x holds the numerators of speed and acceleration over
   KfDen^n, and v_ego_kf.n counts the updates. *)

MaxKfCalls == 3

\* gain K = <<K0Num, K1Num>> / KfDen and tick period DtNum / KfDen
KfDen == 100
K0Num == 12
K1Num == 30
DtNum == 1

ResetThreshold == 2

RECURSIVE Pow(_, _)
Pow(b, n) == IF n = 0 THEN 1 ELSE b * Pow(b, n - 1)

Abs(x) == IF x < 0 THEN -x ELSE x

\* KF1D.update with A = [[1, dt], [0, 1]] and C = [1, 0]:
\* x <- (A - K C) x + K meas, over KfDen^(n+1)
KF1D_update(kf, meas) ==
  LET S == Pow(KfDen, kf.n)
  IN [x |-> <<(KfDen - K0Num) * kf.x[1] + DtNum * kf.x[2] + K0Num * meas * S,
              KfDen * kf.x[2] - K1Num * kf.x[1] + K1Num * meas * S>>,
      n |-> kf.n + 1]

\* KF1D.set_x
KF1D_set_x(kf, x0, x1) ==
  LET S == Pow(KfDen, kf.n) IN [kf EXCEPT !.x = <<x0 * S, x1 * S>>]

\* variant: a difference of exactly the threshold resets too
SpeedJumpMut(kf, v_ego_raw) ==
  Abs(v_ego_raw * Pow(KfDen, kf.n) - kf.x[1]) >= ResetThreshold * Pow(KfDen, kf.n)

\* abs(v_ego_raw - self.v_ego_kf.x[0][0]) > 2.0
SpeedJump(kf, v_ego_raw) ==
  Abs(v_ego_raw * Pow(KfDen, kf.n) - kf.x[1]) > ResetThreshold * Pow(KfDen, kf.n)

update_speed_kf(v_ego_raw) ==
  /\ CS.v_ego_kf.n < MaxKfCalls
  /\ LET reset == SpeedJump(CS.v_ego_kf, v_ego_raw)
         kf == IF reset THEN KF1D_set_x(CS.v_ego_kf, v_ego_raw, 0) ELSE CS.v_ego_kf
     IN /\ CS' = [CS EXCEPT !.v_ego_kf = KF1D_update(kf, v_ego_raw)]
        /\ call' = [op |-> "update_speed_kf", ret |-> CS'.v_ego_kf.x,
                    gear_allowed |-> FALSE, args |-> <<v_ego_raw>>, set_x |-> reset]
  /\ UNCHANGED <<accel_controller, CP, CI, cs_out, events, param_s, now, hist>>

-----------------------------------------------------------------------------
(* SpecSpeed: calls of update_speed_kf with raw speeds around the threshold *)

RawSpeeds == 0..6

InitSpeed == Constructed({DefaultCP}, {<<FALSE, TRUE>>}, {DefaultParams}, "none")

NextSpeed == \E v \in RawSpeeds : update_speed_kf(v)

SpecSpeed == InitSpeed /\ [][NextSpeed]_vars

\* C18: update_speed_kf overwrites the filter state with [raw, 0] exactly when
\* |raw - filtered speed| > 2.0, strictly, and such a call returns speed = raw and
\* acceleration = 0.
C18_HardReset ==
  [][call'.op = "update_speed_kf" =>
       LET S == Pow(KfDen, CS.v_ego_kf.n)
           raw == call'.args[1]
       IN /\ call'.set_x <=> Abs(raw * S - CS.v_ego_kf.x[1]) > ResetThreshold * S
          /\ call'.set_x => call'.ret = <<raw * S * KfDen, 0>>]_vars

\* a reset downwards: a raw speed of 0 against a filtered speed above the threshold
C18_Witness ==
  /\ call.op = "update_speed_kf"
  /\ call.set_x
  /\ call.args[1] = 0
  /\ call.ret = <<0, 0>>

-----------------------------------------------------------------------------
(* Torque model selection.  A string is the sequence of its characters; a
   similarity is the fraction <<numerator, denominator>> with a positive
   denominator. *)

\* s[lo..hi-1] = t, the slice of s starting at lo that has the length of t
OccursAt(s, lo, t) ==
  /\ lo + Len(t) - 1 <= Len(s)
  /\ \A k \in 1..Len(t) : s[lo + k - 1] = t[k]

\* t in s
Contains(s, t) == \E lo \in 1..(Len(s) + 1) : OccursAt(s, lo, t)

\* s.endswith(t)
EndsWith(s, t) == Len(t) <= Len(s) /\ OccursAt(s, Len(s) - Len(t) + 1, t)

\* s.replace(old, ""): the occurrences of old are removed from left to right
RECURSIVE RemoveFrom(_, _, _)
RemoveFrom(s, lo, old) ==
  IF lo > Len(s) THEN <<>>
  ELSE IF Len(old) > 0 /\ OccursAt(s, lo, old) THEN RemoveFrom(s, lo + Len(old), old)
  ELSE <<s[lo]>> \o RemoveFrom(s, lo + 1, old)

Remove(s, old) == RemoveFrom(s, 1, old)

\* the length of the common run of a from i and of b from j, below ahi and bhi
RECURSIVE Run(_, _, _, _, _, _)
Run(a, i, ahi, b, j, bhi) ==
  IF i >= ahi \/ j >= bhi \/ a[i] # b[j] THEN 0
  ELSE 1 + Run(a, i + 1, ahi, b, j + 1, bhi)

SetMax(S) == CHOOSE x \in S : \A y \in S : y <= x
SetMin(S) == CHOOSE x \in S : \A y \in S : x <= y

\* SequenceMatcher.find_longest_match without junk: <<i, j, k>> with a[i..i+k-1] =
\* b[j..j+k-1] in a[alo..ahi-1], b[blo..bhi-1], k the largest, then i the smallest,
\* then j the smallest; <<alo, blo, 0>> when nothing matches
find_longest_match(a, alo, ahi, b, blo, bhi) ==
  LET k == SetMax({0} \cup {Run(a, i, ahi, b, j, bhi) : i \in alo..(ahi - 1), j \in blo..(bhi - 1)})
  IN IF k = 0 THEN <<alo, blo, 0>>
     ELSE LET i == SetMin({x \in alo..(ahi - 1) :
                             \E y \in blo..(bhi - 1) : Run(a, x, ahi, b, y, bhi) = k})
              j == SetMin({y \in blo..(bhi - 1) : Run(a, i, ahi, b, y, bhi) = k})
          IN <<i, j, k>>

\* the total size of SequenceMatcher.get_matching_blocks: the longest match, then
\* the same to its left and to its right
RECURSIVE Matches(_, _, _, _, _, _)
Matches(a, alo, ahi, b, blo, bhi) ==
  LET m == find_longest_match(a, alo, ahi, b, blo, bhi)
  IN IF m[3] = 0 THEN 0
     ELSE m[3]
          + (IF alo < m[1] /\ blo < m[2] THEN Matches(a, alo, m[1], b, blo, m[2]) ELSE 0)
          + (IF m[1] + m[3] < ahi /\ m[2] + m[3] < bhi
             THEN Matches(a, m[1] + m[3], ahi, b, m[2] + m[3], bhi) ELSE 0)

\* SequenceMatcher(None, s1, s2).ratio(): 2.0 * matches / (len(s1) + len(s2)), and
\* 1.0 for two empty strings
similarity(s1, s2) ==
  IF Len(s1) + Len(s2) = 0 THEN <<1, 1>>
  ELSE <<2 * Matches(s1, 1, Len(s1) + 1, s2, 1, Len(s2) + 1), Len(s1) + Len(s2)>>

Less(p, q) == p[1] * q[2] < q[1] * p[2]

TORQUE_NN_MODEL_PATH ==
  <<"s", "e", "l", "f", "d", "r", "i", "v", "e", "/", "c", "a", "r", "/", "t", "o",
    "r", "q", "u", "e", "_", "d", "a", "t", "a", "/", "l", "a", "t", "_", "m", "o",
    "d", "e", "l", "s">>

DotJson == <<".", "j", "s", "o", "n">>

\* os.path.join(TORQUE_NN_MODEL_PATH, f)
JoinPath(f) == TORQUE_NN_MODEL_PATH \o <<"/">> \o f

\* one round of the loop of check_nn_path: best is [model_path, max_similarity]
check_nn_file(best, f, _check_model) ==
  IF EndsWith(f, DotJson)
  THEN LET model == Remove(Remove(f, DotJson), TORQUE_NN_MODEL_PATH \o <<"/">>)
           similarity_score == similarity(model, _check_model)
       IN IF Less(best.max_similarity, similarity_score)
          THEN [model_path |-> Some(JoinPath(f)), max_similarity |-> similarity_score]
          ELSE best
  ELSE best

RECURSIVE check_nn_loop(_, _, _, _)
check_nn_loop(best, listing, k, _check_model) ==
  IF k > Len(listing) THEN best
  ELSE check_nn_loop(check_nn_file(best, listing[k], _check_model), listing, k + 1,
                     _check_model)

\* listing is os.listdir(TORQUE_NN_MODEL_PATH), in the order the call returns it
check_nn_path(listing, _check_model) ==
  check_nn_loop([model_path |-> None, max_similarity |-> <<-1, 1>>], listing, 1,
                _check_model)

\* 0.0 <= max_similarity < 0.9
BelowThreshold(max_similarity) ==
  ~Less(max_similarity, <<0, 1>>) /\ Less(max_similarity, <<9, 10>>)

\* _car not in model_path or 0.0 <= max_similarity < 0.9, of a model_path that is
\* not None
NnRejected(_car, found) ==
  ~Contains(found.model_path[1], _car) \/ BelowThreshold(found.max_similarity)

\* variant: the firmware is used in the query whatever its length
NnQueryMut(_car, eps_firmware) ==
  _car \o <<" ">> \o Remove(eps_firmware, <<"\\">>)

\* check_model of the first search
NnQuery(_car, eps_firmware) ==
  IF Len(eps_firmware) > 3
  THEN _car \o <<" ">> \o Remove(eps_firmware, <<"\\">>)
  ELSE _car

\* the outcome of get_nn_model_path: error is "TypeError" when the first search found
\* no file and `_car not in model_path` is evaluated on None
NnModelPath(listing, _car, eps_firmware) ==
  LET first == check_nn_path(listing, NnQuery(_car, eps_firmware))
      second == check_nn_path(listing, _car)
  IN IF first.model_path = None
     THEN [error |-> "TypeError", model_path |-> None, max_similarity |-> <<-1, 1>>]
     ELSE IF ~NnRejected(_car, first)
     THEN [error |-> "", model_path |-> first.model_path,
           max_similarity |-> first.max_similarity]
     ELSE IF NnRejected(_car, second)
     THEN [error |-> "", model_path |-> None, max_similarity |-> second.max_similarity]
     ELSE [error |-> "", model_path |-> second.model_path,
           max_similarity |-> second.max_similarity]

get_nn_model_path(listing, _car, eps_firmware) ==
  /\ call' = FilterCalled("get_nn_model_path", <<listing, _car, eps_firmware>>,
                          NnModelPath(listing, _car, eps_firmware))
  /\ UNCHANGED <<accel_controller, CP, CI, CS, cs_out, events, param_s, now, hist>>

-----------------------------------------------------------------------------
(* SpecModels: get_nn_model_path over the listings of a small model directory *)

MaxFiles == 3

Accord10Json ==
  <<"A", "c", "c", "o", "r", "d", " ", "1", ".", "0", ".", "j", "s", "o", "n">>
Accord21Json ==
  <<"A", "c", "c", "o", "r", "d", " ", "2", ".", "1", ".", "j", "s", "o", "n">>
Civic30Json ==
  <<"C", "i", "v", "i", "c", " ", "3", ".", "0", ".", "j", "s", "o", "n">>
ReadmeTxt == <<"R", "E", "A", "D", "M", "E", ".", "t", "x", "t">>
Accord == <<"A", "c", "c", "o", "r", "d">>
Civic == <<"C", "i", "v", "i", "c">>
Fw21 == <<"2", ".", "1">>
Fw21Long == <<"2", ".", "1", "\\">>
Fw30Long == <<"3", ".", "0", "\\">>

ModelFiles == {Accord10Json, Accord21Json, Civic30Json, ReadmeTxt}

\* the directory listings: up to MaxFiles of the files, in any order
Listings ==
  {l \in UNION {[1..n -> ModelFiles] : n \in 0..MaxFiles} :
     \A i, j \in DOMAIN l : i # j => l[i] # l[j]}

InitModels == Constructed({DefaultCP}, {<<FALSE, TRUE>>}, {DefaultParams}, "none")

\* the model is selected once, when the interface is set up
NextModels ==
  /\ call = NoCall
  /\ \E l \in Listings, c \in {Accord, Civic}, fw \in {Fw21, Fw21Long, Fw30Long} :
       get_nn_model_path(l, c, fw)

SpecModels == InitModels /\ [][NextModels]_vars

NnCalled == call.op = "get_nn_model_path"

\* the directory holds exactly the three models of the example
ExampleRepository ==
  {call.args[1][i] : i \in DOMAIN call.args[1]} = {Accord10Json, Accord21Json, Civic30Json}

ModelName(path) ==
  Remove(SubSeq(path, Len(TORQUE_NN_MODEL_PATH) + 2, Len(path)), DotJson)

\* C20: for every directory content and every (vehicle, firmware), get_nn_model_path
\* ends without an error and returns no model, or a model whose name contains the
\* vehicle and whose similarity is at least 0.9.
C20_SelectionSound ==
  NnCalled =>
    /\ call.ret.error = ""
    /\ \/ call.ret.model_path = None
       \/ /\ Contains(ModelName(call.ret.model_path[1]), call.args[2])
          /\ ~Less(call.ret.max_similarity, <<9, 10>>)

-----------------------------------------------------------------------------
(* FluxModel.  A model file is [input_size, width, layers]: the declared
   input_size, the number of features of input_mean, input_std and of the first
   layer's W, and the activation names of the layers.  A value of the forward pass
   is [kind, width]: an array of that many columns, or NotImplemented. *)

MaxInputSize == 4
MaxLayers == 2
MaxInputLen == 5

\* the activation functions of the class
Activations == {"sigmoid", "identity"}

\* the attributes of a FluxModel object: activations, other methods, fields, and
\* attributes inherited from object
FluxMethods ==
  {"__init__", "forward", "evaluate", "validate_layers", "check_for_friction_override"}
FluxFields ==
  {"input_size", "output_size", "input_mean", "input_std", "layers", "friction_override"}
ObjectAttributes == {"__eq__", "__class__", "__doc__"}
FluxAttributes == Activations \cup FluxMethods \cup FluxFields \cup ObjectAttributes

\* activation.replace(k, v) for k, v in ACTIVATION_FUNCTION_NAMES, of names that
\* hold the sigma as a whole name only
RenameActivation(activation) == IF activation = "σ" THEN "sigmoid" ELSE activation

\* hasattr(self, activation)
HasAttr(activation) == activation \in FluxAttributes

FluxError(e) == [error |-> e, x |-> [kind |-> "none", width |-> 0]]

\* variant: every attribute of the object acts as an activation
CallAttrMut(m, activation, x) ==
  IF activation \in FluxAttributes THEN [error |-> "", x |-> x]
  ELSE FluxError("AttributeError")

\* getattr(self, activation)(x) for an array x
CallAttr(m, activation, x) ==
  IF activation \in Activations THEN [error |-> "", x |-> x]
  ELSE IF activation \notin FluxAttributes THEN FluxError("AttributeError")
  ELSE IF activation = "__eq__"
    THEN [error |-> "", x |-> [kind |-> "NotImplemented", width |-> 0]]
  ELSE IF activation = "forward" THEN FluxError("RecursionError")
  ELSE IF activation = "evaluate"
    THEN IF m.input_size = 1 THEN FluxError("RecursionError") ELSE FluxError("ValueError")
  ELSE FluxError("TypeError")

\* FluxModel.forward from layer k on: x.dot(W) needs an array with the rows of W
RECURSIVE forward(_, _, _)
forward(m, k, x) ==
  IF k > Len(m.layers) THEN [error |-> "", x |-> x]
  ELSE IF x.kind # "array" THEN FluxError("AttributeError")
  ELSE IF k = 1 /\ x.width # m.width THEN FluxError("ValueError")
  ELSE LET r == CallAttr(m, m.layers[k], [kind |-> "array", width |-> 1])
       IN IF r.error # "" THEN r ELSE forward(m, k + 1, r.x)

\* variant: a longer input is cut to input_size
PaddedLenMut(in_len, input_size) ==
  IF in_len # input_size /\ 2 <= in_len THEN input_size ELSE in_len

\* len(input_array + [0] * (self.input_size - in_len)) when the input is padded
PaddedLen(in_len, input_size) ==
  IF in_len # input_size /\ 2 <= in_len
  THEN in_len + (IF input_size - in_len > 0 THEN input_size - in_len ELSE 0)
  ELSE in_len

\* FluxModel.evaluate of an input of in_len features: the error raised if any, and
\* features, the length of input_array when it is normalized (None if not reached)
evaluate(m, in_len) ==
  IF in_len # m.input_size /\ ~(2 <= in_len)
  THEN [error |-> "ValueError: length", features |-> None]
  ELSE LET n == PaddedLen(in_len, m.input_size)
       IN IF ~(n = m.width \/ n = 1 \/ m.width = 1)
          THEN [error |-> "ValueError: shape", features |-> Some(n)]
          ELSE LET r == forward(m, 1, [kind |-> "array",
                                       width |-> IF n = 1 THEN m.width ELSE n])
               IN IF r.error # "" THEN [error |-> r.error, features |-> Some(n)]
                  ELSE IF r.x.kind # "array"
                    THEN [error |-> "TypeError", features |-> Some(n)]
                  ELSE [error |-> "", features |-> Some(n)]

\* FluxModel.validate_layers
validate_layers(m) == \A k \in DOMAIN m.layers : HasAttr(m.layers[k])

\* FluxModel.__init__ up to the value of friction_override: the error raised if any
FluxModel_init(params) ==
  LET m == [input_size |-> params.input_size, width |-> params.width,
            layers |-> [k \in DOMAIN params.layers |-> RenameActivation(params.layers[k])],
            friction_override |-> FALSE]
  IN IF ~validate_layers(m) THEN [error |-> "ValueError: activation", model |-> m]
     ELSE [error |-> evaluate(m, 3).error, model |-> m]

\* initialize_lat_torque_nn for the model file that get_nn_model_path selected;
\* friction_override is y < 0.1 of the evaluation of [10.0, 0.0, 0.2]
initialize_lat_torque_nn(params) ==
  LET r == FluxModel_init(params)
  IN /\ call' = FilterCalled("initialize_lat_torque_nn", <<params>>, [error |-> r.error])
     /\ IF r.error = ""
        THEN \E y_low \in BOOLEAN :
               CI' = [CI EXCEPT !.lat_torque_nn_model =
                                   Some([r.model EXCEPT !.friction_override = y_low])]
        ELSE CI' = CI
     /\ UNCHANGED <<accel_controller, CP, CS, cs_out, events, param_s, now, hist>>

\* get_ff_nn with an input of in_len features
get_ff_nn(in_len) ==
  /\ CI.lat_torque_nn_model # None
  /\ call' = FilterCalled("get_ff_nn", <<in_len>>,
                          evaluate(CI.lat_torque_nn_model[1], in_len))
  /\ UNCHANGED <<accel_controller, CP, CI, CS, cs_out, events, param_s, now, hist>>

-----------------------------------------------------------------------------
(* SpecFlux: one model file is loaded and then evaluated *)

ActivationNames ==
  {"identity", "sigmoid", "σ", "relu", "layers", "forward", "evaluate", "__eq__"}

ModelParams ==
  [input_size : 0..MaxInputSize, width : 0..MaxInputSize,
   layers : UNION {[1..n -> ActivationNames] : n \in 1..MaxLayers}]

InitFlux == Constructed({DefaultCP}, {<<FALSE, TRUE>>}, {DefaultParams}, "none")

NextFlux ==
  \/ call = NoCall /\ \E params \in ModelParams : initialize_lat_torque_nn(params)
  \/ \E in_len \in 0..MaxInputLen : get_ff_nn(in_len)

SpecFlux == InitFlux /\ [][NextFlux]_vars

\* C21: the construction of a FluxModel fails whenever a layer's activation name,
\* after the renaming, is not identity or sigmoid, so the model that is evaluated has
\* only those activations.
C21_UnknownActivationFails ==
  /\ (call.op = "initialize_lat_torque_nn"
      /\ \E k \in DOMAIN call.args[1].layers :
           RenameActivation(call.args[1].layers[k]) \notin {"identity", "sigmoid"})
     => call.ret.error # ""
  /\ CI.lat_torque_nn_model # None
     => \A k \in DOMAIN CI.lat_torque_nn_model[1].layers :
          CI.lat_torque_nn_model[1].layers[k] \in {"identity", "sigmoid"}

\* a file whose activation names an attribute of the object, which validate_layers
\* lets through, failed in the evaluation that ends the construction
C21_Witness ==
  /\ call.op = "initialize_lat_torque_nn"
  /\ call.args[1].layers = <<"σ", "layers">>
  /\ call.args[1].input_size = 3 /\ call.args[1].width = 3
  /\ call.ret.error = "TypeError"
  /\ CI.lat_torque_nn_model = None

EvaluateCalled == call.op = "get_ff_nn"

\* C22 as stated: an input of fewer than 2 features fails with the length error, an
\* input of 2 <= n < input_size features is padded to input_size, and the input that
\* is normalized always has input_size features.
C22_Original ==
  EvaluateCalled =>
    LET n == call.args[1]
        m == CI.lat_torque_nn_model[1].input_size
    IN /\ n < 2 => call.ret.error = "ValueError: length"
       /\ (2 <= n /\ n < m) => call.ret.features = Some(m)
       /\ call.ret.features # None => call.ret.features = Some(m)

\* C22: an input whose length n differs from input_size m and is below 2 fails with
\* the length error before the normalization; an input of 2 <= n < m features is
\* padded to m and one of n = m features is taken as it is, so both are normalized
\* with m features; an input of n > m features (n >= 2) is normalized with its n
\* features.
C22_InputLength ==
  EvaluateCalled =>
    LET n == call.args[1]
        m == CI.lat_torque_nn_model[1].input_size
    IN /\ (n # m /\ n < 2) =>
            (call.ret.error = "ValueError: length" /\ call.ret.features = None)
       /\ (2 <= n /\ n < m) => call.ret.features = Some(m)
       /\ n = m => call.ret.features = Some(m)
       /\ (2 <= n /\ n > m) => call.ret.features = Some(n)

\* an input of 2 features was padded for a model of 4 and evaluated without error
C22_Witness ==
  /\ EvaluateCalled
  /\ call.args[1] = 2
  /\ CI.lat_torque_nn_model[1].input_size = 4
  /\ call.ret = [error |-> "", features |-> Some(4)]

-----------------------------------------------------------------------------
(* get_torque_params.  A table of the torque configuration is a function from
   its keys; the base table params also holds the key "legend". *)

\* d[k] = v added to the dict d
DictPut(d, k, v) == [x \in DOMAIN d \cup {k} |-> IF x = k THEN v ELSE d[x]]

\* {key: out[i] for i, key in enumerate(legend)}
TuningRecord(out, legend) ==
  [key \in {legend[i] : i \in DOMAIN legend} |->
     out[CHOOSE i \in DOMAIN legend : legend[i] = key /\
           \A j \in DOMAIN legend : legend[j] = key => j <= i]]

\* variant: a key may be in two tables
DefinedTwiceMut(candidate, sub, params, override) ==
  Cardinality({t \in {1, 2, 3} :
    candidate \in DOMAIN (IF t = 1 THEN sub ELSE IF t = 2 THEN params ELSE override)}) > 2

\* sum([candidate in x for x in [sub, params, override]]) > 1
DefinedTwice(candidate, sub, params, override) ==
  Cardinality({t \in {1, 2, 3} :
    candidate \in DOMAIN (IF t = 1 THEN sub ELSE IF t = 2 THEN params ELSE override)}) > 1

\* sub.get(candidate, candidate)
SubCandidate(sub, candidate) ==
  IF candidate \in DOMAIN sub THEN sub[candidate] ELSE candidate

\* the loop of get_torque_params from the k-th candidate of order on
RECURSIVE torque_loop(_, _, _, _, _, _)
torque_loop(torque_params, order, k, sub, params, override) ==
  IF k > Len(order) THEN [error |-> "", torque_params |-> Some(torque_params)]
  ELSE LET candidate == order[k]
           sub_candidate == SubCandidate(sub, candidate)
       IN IF DefinedTwice(candidate, sub, params, override)
          THEN [error |-> "RuntimeError", torque_params |-> None]
          ELSE IF sub_candidate \notin DOMAIN override \cup DOMAIN params
          THEN [error |-> "NotImplementedError", torque_params |-> None]
          ELSE LET out == IF sub_candidate \in DOMAIN override
                          THEN override[sub_candidate] ELSE params[sub_candidate]
                   tp1 == DictPut(torque_params, sub_candidate,
                                  TuningRecord(out, params["legend"]))
                   tp2 == IF candidate \in DOMAIN sub
                          THEN DictPut(tp1, candidate, tp1[sub_candidate]) ELSE tp1
               IN torque_loop(tp2, order, k + 1, sub, params, override)

\* (sub.keys() | params.keys() | override.keys()) - {'legend'}
Candidates(sub, params, override) ==
  (DOMAIN sub \cup DOMAIN params \cup DOMAIN override) \ {"legend"}

\* order is the order in which the set of candidates is iterated
get_torque_params(sub, params, override, order) ==
  /\ Len(order) = Cardinality(Candidates(sub, params, override))
  /\ {order[i] : i \in DOMAIN order} = Candidates(sub, params, override)
  /\ call' = FilterCalled("get_torque_params", <<sub, params, override, order>>,
                          torque_loop(<<>>, order, 1, sub, params, override))
  /\ UNCHANGED <<accel_controller, CP, CI, CS, cs_out, events, param_s, now, hist>>

-----------------------------------------------------------------------------
(* SpecTorque: get_torque_params, which is cached, over small tables *)

MaxVehicles == 3

Vehicles == {"V1", "V2", "V3", "V4"}
Legend == <<"LAT_ACCEL_FACTOR", "FRICTION">>

SubTables == UNION {[D -> Vehicles] : D \in SUBSET {"V1", "V2"}}
ParamsTables ==
  {[k \in D \cup {"legend"} |-> IF k = "legend" THEN Legend ELSE <<2, 1>>] :
     D \in SUBSET {"V2", "V3", "V4"}}
OverrideTables == UNION {[D -> {<<3, 0>>}] : D \in SUBSET {"V1", "V3"}}

Orders ==
  {o \in UNION {[1..n -> Vehicles] : n \in 0..MaxVehicles} :
     \A i, j \in DOMAIN o : i # j => o[i] # o[j]}

InitTorque == Constructed({DefaultCP}, {<<FALSE, TRUE>>}, {DefaultParams}, "none")

NextTorque ==
  /\ call = NoCall
  /\ \E sub \in SubTables, params \in ParamsTables, override \in OverrideTables,
        order \in Orders :
       get_torque_params(sub, params, override, order)

SpecTorque == InitTorque /\ [][NextTorque]_vars

TorqueCalled == call.op = "get_torque_params"

\* C23: get_torque_params fails and returns no table whenever a vehicle key is in
\* more than one of the three tables or the substituted name of a key is in neither
\* the base nor the override table; when it succeeds every vehicle key of the three
\* tables has a tuning record, and an aliased key has the record of its substitute.
C23_TorqueTables ==
  TorqueCalled =>
    LET sub == call.args[1]
        params == call.args[2]
        override == call.args[3]
        keys == Candidates(sub, params, override)
    IN /\ (\E k \in keys :
              \/ Cardinality({t \in {1, 2, 3} : k \in DOMAIN call.args[t]}) > 1
              \/ SubCandidate(sub, k) \notin DOMAIN params \cup DOMAIN override)
          => (call.ret.error # "" /\ call.ret.torque_params = None)
       /\ call.ret.error = "" =>
            /\ call.ret.torque_params # None
            /\ \A k \in keys :
                 /\ k \in DOMAIN call.ret.torque_params[1]
                 /\ DOMAIN call.ret.torque_params[1][k] = {"LAT_ACCEL_FACTOR", "FRICTION"}
                 /\ k \in DOMAIN sub =>
                      call.ret.torque_params[1][k] = call.ret.torque_params[1][sub[k]]

\* a table was built from an alias, a base entry and an override entry
C23_Witness ==
  /\ TorqueCalled
  /\ call.ret.error = ""
  /\ DOMAIN call.args[1] = {"V1"}
  /\ call.args[1]["V1"] = "V3"
  /\ "V2" \in DOMAIN call.args[2]
  /\ DOMAIN call.args[3] = {"V3"}
  /\ call.ret.torque_params[1]["V1"] = [LAT_ACCEL_FACTOR |-> 3, FRICTION |-> 0]

-----------------------------------------------------------------------------
(* SpecSteer: temporary steer faults and the driver's hand on the wheel;
   create_common_events runs at most once in a tick *)

SteerSnapshots ==
  {[Snapshot(TRUE, "drive") EXCEPT !.steerFaultTemporary = f, !.steeringPressed = p,
                                   !.standstill = st] :
     f \in BOOLEAN, p \in BOOLEAN, st \in BOOLEAN}

InitSteer == Constructed({DefaultCP}, {<<FALSE, TRUE>>}, {DefaultParams}, "steer")

NextSteer ==
  \/ update(SteerSnapshots, {DefaultParams}, SteerUnpressedTicks + 2)
  \/ /\ call.op = "update"
     /\ create_common_events([latActive |-> TRUE, longActive |-> FALSE], {}, TRUE, TRUE)

SpecSteer == InitSteer /\ [][NextSteer]_vars

\* the temporary steer-fault events of the list made in this step
TempFaultEvents ==
  {n \in {"steerTempUnavailable", "steerTempUnavailableSilent"} : Has(events'.list, n)}

\* the silent event within the first int(1.5 / DT_CTRL) ticks after the wheel is let go
SilentAfterRelease ==
  (cs_out.steerFaultTemporary /\ ~cs_out.steeringPressed
   /\ CI'.steering_unpressed < SteerUnpressedTicks)
    => TempFaultEvents = {"steerTempUnavailableSilent"}

\* C24 as stated: a temporary fault with the wheel pressed emits no steer-fault event
\* on its first tick and does emit one when, having been suppressed in the previous
\* call, it persists with the wheel still pressed; within the first 1.5 s after the
\* wheel is released during a fault the silent event is emitted, not the loud one.
C24_Original ==
  [][CommonEventsStep =>
       /\ (cs_out.steerFaultTemporary /\ cs_out.steeringPressed
           /\ ~CS.out.steerFaultTemporary) => TempFaultEvents = {}
       /\ (cs_out.steerFaultTemporary /\ cs_out.steeringPressed
           /\ CS.out.steerFaultTemporary /\ CI.no_steer_warning)
            => TempFaultEvents # {}
       /\ SilentAfterRelease]_vars

\* C24: a temporary fault that appears while the wheel is pressed emits no steer-fault
\* event on that tick, nor on any later tick on which the fault and the pressing both
\* continue: persistence does not end the suppression.  A fault that was present on
\* the previous tick and was not being suppressed emits one event per tick even with
\* the wheel pressed.  Within the first 1.5 s after the wheel is released during a
\* fault the silent event is emitted, not the loud one.
C24_TempFault ==
  [][CommonEventsStep =>
       /\ (cs_out.steerFaultTemporary /\ cs_out.steeringPressed
           /\ (~CS.out.steerFaultTemporary \/ CI.no_steer_warning))
            => (TempFaultEvents = {} /\ CI'.no_steer_warning)
       /\ (cs_out.steerFaultTemporary /\ cs_out.steeringPressed
           /\ CS.out.steerFaultTemporary /\ ~CI.no_steer_warning)
            => Cardinality(TempFaultEvents) = 1
       /\ SilentAfterRelease]_vars

\* a fault that began with the wheel pressed is still suppressed on its third tick
C24_Witness ==
  /\ call.op = "create_common_events"
  /\ now = 4
  /\ cs_out.steerFaultTemporary /\ cs_out.steeringPressed
  /\ CS.out.steerFaultTemporary
  /\ CI.no_steer_warning
  /\ CI.steering_unpressed = 0
  /\ ~CI.silent_steer_warning
  /\ ~Has(events.list, "steerTempUnavailable")
  /\ ~Has(events.list, "steerTempUnavailableSilent")

\* C29: during one continuous temporary steer fault, once steerTempUnavailableSilent
\* has been emitted steerTempUnavailable is not emitted before a tick without the
\* fault, however long the wheel stays unpressed; and the two are never emitted in
\* the same tick.
C29_SilentLatch ==
  [][CommonEventsStep =>
       /\ (hist.silent_seen /\ cs_out.steerFaultTemporary)
            => ~Has(events'.list, "steerTempUnavailable")
       /\ Cardinality(TempFaultEvents) <= 1]_vars

\* the silent event is still emitted although the wheel has been unpressed, with the
\* car moving, for longer than 1.5 s
C29_Witness ==
  /\ call.op = "create_common_events"
  /\ hist.silent_seen
  /\ cs_out.steerFaultTemporary /\ ~cs_out.standstill
  /\ CI.steering_unpressed = SteerUnpressedTicks
  /\ now = SteerUnpressedTicks + 2
  /\ Has(events.list, "steerTempUnavailableSilent")

-----------------------------------------------------------------------------
(* Gate reset and arming *)

\* C25: a call of get_sp_started_mads on a tick where cruise is not available and the
\* previous tick's output had it available returns False and leaves madsEnabledInit
\* and madsEnabledInitPrev cleared, whatever the configuration, the gear and the
\* requested state are.
C25_GateReset ==
  (StartedCalled /\ ~cs_out.cruiseState.available /\ CS.out.cruiseState.available)
    => (~call.ret /\ ~CI.madsEnabledInit /\ ~CI.madsEnabledInitPrev)

\* the reset overrode a request that the configuration would have passed through
C25_Witness ==
  /\ StartedCalled
  /\ ~cs_out.cruiseState.available /\ CS.out.cruiseState.available
  /\ cs_out.gearShifter = "drive"
  /\ ~CS.params_list.mads_main_toggle
  /\ CS.madsEnabled
  /\ ~call.ret

(* SpecArm: the main toggle is configured, the combo latch stays clear, the gear is a
   forward gear, and get_sp_started_mads is called once in every tick *)

ArmSnapshots == {Snapshot(a, g) : a \in BOOLEAN, g \in {"drive", "low"}}

InitArm == Constructed({DefaultCP}, {<<FALSE, TRUE>>}, MainToggleParams, "arm")

NextArm ==
  \/ call.op \in {"init", "get_sp_started_mads"}
     /\ update(ArmSnapshots, MainToggleParams, WindowTicks + ExtraTicks)
  \/ call.op = "update" /\ caller_set_madsEnabled
  \/ call.op \in {"update", "caller"} /\ get_sp_started_mads

SpecArm == InitArm /\ [][NextArm]_vars

\* C26: once the pending window has started, with the gear forward and no loss of
\* cruise availability since, the call of get_sp_started_mads on the first tick at or
\* after 1.0 s from the window start returns the current cruise availability, so it
\* returns True when cruise is available.
C26_ArmsAfterWindow ==
  (StartedCalled /\ hist.win_start >= 0 /\ now = hist.win_start + WindowTicks)
    => call.ret = cs_out.cruiseState.available

\* the window ran out with cruise available and the call returned True
C26_Witness ==
  /\ StartedCalled
  /\ hist.win_start >= 1
  /\ now = hist.win_start + WindowTicks
  /\ cs_out.cruiseState.available
  /\ CI.madsEnabledInitPrev
  /\ call.ret

-----------------------------------------------------------------------------
(* Specification of the MADS button: press and release edges of altButton1, *)
(* with an enable button beside it, under both cruise kinds.                *)

MadsButtons ==
  {[type |-> "altButton1", pressed |-> TRUE], [type |-> "altButton1", pressed |-> FALSE],
   [type |-> "accelCruise", pressed |-> FALSE]}

MadsButtonEvents == UNION {[1..n -> MadsButtons] : n \in 0..MaxButtons}

MadsButtonSnapshots ==
  {[Snapshot(TRUE, "drive") EXCEPT !.cruiseState.enabled = e, !.brakePressed = p,
                                   !.buttonEvents = bs] :
     e \in BOOLEAN, p \in BOOLEAN, bs \in MadsButtonEvents}

InitMadsButton ==
  Constructed(ButtonCPs, {<<FALSE, m>> : m \in BOOLEAN}, {DefaultParams}, "none")

\* the methods run at most once in a tick, in the order of the per-tick algorithm
NextMadsButton ==
  \/ /\ call.op \in {"init", "create_sp_events"}
     /\ update(MadsButtonSnapshots, {DefaultParams}, ShortTicks)
  \/ call.op = "update" /\ caller_set_madsEnabled
  \/ call.op \in {"update", "caller"} /\ caller_set_accEnabled
  \/ call.op \in {"update", "caller"} /\ get_sp_common_state(TRUE, FALSE, 0)
  \/ /\ call.op \in {"update", "caller", "get_sp_common_state"}
     /\ create_common_events([latActive |-> FALSE, longActive |-> FALSE], {}, FALSE, TRUE)
  \/ /\ call.op = "create_common_events"
     /\ create_sp_events(FALSE, FALSE, TRUE, DefaultEnableButtons)

SpecMadsButton == InitMadsButton /\ [][NextMadsButton]_vars

\* the altButton1 pressed events of a message
PressCount(bs) ==
  Cardinality({i \in DOMAIN bs : bs[i].type = "altButton1" /\ bs[i].pressed})

\* how many times create_sp_events added the event
Added(name) == CountOf(events'.list, name) - CountOf(events.list, name)

\* a call of create_sp_events
SpEventsStep == events.owner = "create_common_events" /\ call'.op = "create_sp_events"

\* an enable is asked for by something else than the MADS button: the brake release,
\* the falling edge of an enable button without stock cruise, the rising edge of
\* stock cruise
EnableElsewhere ==
  \/ ~BrakeActive(cs_out) /\ cs_out.disengageByBrake /\ cs_out.madsEnabled
  \/ /\ ~CP.pcmCruise
     /\ \E i \in DOMAIN cs_out.buttonEvents :
           /\ cs_out.buttonEvents[i].type \in DefaultEnableButtons
           /\ ~cs_out.buttonEvents[i].pressed
  \/ CP.pcmCruise /\ cs_out.cruiseState.enabled /\ ~CS.out.cruiseState.enabled

\* buttonCancel events that are not the MADS button's: one for each cancel event and
\* one for stock cruise not enabled, all while steering assist is not armed
CancelElsewhere ==
  IF cs_out.madsEnabled THEN 0
  ELSE CancelCount(cs_out.buttonEvents)
         + (IF CP.pcmCruise /\ ~cs_out.cruiseState.enabled THEN 1 ELSE 0)

\* C27: with MADS configured, every pressed altButton1 event of a tick adds exactly one
\* event while cs_out.madsEnabled is false (buttonCancel if cruise is not enabled,
\* manualSteeringRequired if it is) and asks for an enable event while
\* cs_out.madsEnabled is true and cruise is not enabled; with madsEnabled true and
\* cruise enabled, with MADS not configured, or on a release edge, the button adds no
\* event and asks for nothing.
C27_MadsButton ==
  [][SpEventsStep =>
       LET presses == IF CI.enable_mads THEN PressCount(cs_out.buttonEvents) ELSE 0
           off == ~cs_out.madsEnabled
           enabled == cs_out.cruiseState.enabled
       IN /\ Added("manualSteeringRequired") = IF off /\ enabled THEN presses ELSE 0
          /\ Added("buttonCancel") =
                CancelElsewhere + IF off /\ ~enabled THEN presses ELSE 0
          /\ Added("buttonEnable") + Added("silentButtonEnable") =
                IF EnableElsewhere \/ (~off /\ ~enabled /\ presses >= 1) THEN 1 ELSE 0]_vars

\* armed, cruise not enabled, nothing but one pressed MADS button: buttonEnable
C27_Witness ==
  /\ call.op = "create_sp_events"
  /\ CI.enable_mads /\ cs_out.madsEnabled /\ ~cs_out.cruiseState.enabled
  /\ ~CP.pcmCruise
  /\ cs_out.buttonEvents = <<[type |-> "altButton1", pressed |-> TRUE]>>
  /\ Has(events.list, "buttonEnable")

-----------------------------------------------------------------------------
(* Specification of the cruise axis: get_sp_v_cruise_non_pcm_state on the   *)
(* button events of the tick, for every kind of cruise.                     *)

CruiseButtons ==
  {[type |-> "accelCruise", pressed |-> TRUE], [type |-> "accelCruise", pressed |-> FALSE],
   [type |-> "decelCruise", pressed |-> FALSE]}

CruiseButtonEvents == UNION {[1..n -> CruiseButtons] : n \in 0..MaxButtons}

CruiseSnapshots ==
  {[Snapshot(a, "drive") EXCEPT !.cruiseState.enabled = e, !.buttonEvents = bs] :
     a \in BOOLEAN, e \in BOOLEAN, bs \in CruiseButtonEvents}

CruiseCPs ==
  {[DefaultCP EXCEPT !.pcmCruise = c, !.pcmCruiseSpeed = s] : c \in BOOLEAN, s \in BOOLEAN}

InitCruise == Constructed(CruiseCPs, {<<FALSE, TRUE>>}, {DefaultParams}, "none")

\* the caller passes CS.accEnabled or a value of its own, and vCruise
NextCruise ==
  \/ /\ call.op \in {"init", "get_sp_v_cruise_non_pcm_state"}
     /\ update(CruiseSnapshots, {DefaultParams}, ShortTicks)
  \/ /\ call.op = "update"
     /\ \E acc_enabled \in BOOLEAN, v_cruise_initialized \in BOOLEAN :
          get_sp_v_cruise_non_pcm_state(acc_enabled, cs_out.buttonEvents,
                                        v_cruise_initialized)

SpecCruise == InitCruise /\ [][NextCruise]_vars

CruiseCalled == call.op = "get_sp_v_cruise_non_pcm_state"

\* a falling edge of a configured enable button in the button events
EnableReleased(bs) ==
  \E i \in DOMAIN bs : bs[i].type \in DefaultEnableButtons /\ ~bs[i].pressed

\* C28: get_sp_v_cruise_non_pcm_state returns True only if cruise is available and
\* either the acc_enabled passed in was True or the button events of the tick contain
\* a falling edge of a configured enable button on a vehicle without stock cruise or
\* without stock cruise speed; it returns False whenever cruise is not available.
C28_CruiseEnableGuard ==
  (CruiseCalled /\ call.ret)
    => /\ cs_out.cruiseState.available
       /\ \/ call.args[1]
          \/ (~CP.pcmCruise \/ ~CP.pcmCruiseSpeed) /\ EnableReleased(call.args[2])

\* enabled by the release of decelCruise alone, without stock cruise speed
C28_Witness ==
  /\ CruiseCalled /\ call.ret
  /\ ~call.args[1]
  /\ CP.pcmCruise /\ ~CP.pcmCruiseSpeed
  /\ call.args[2] = <<[type |-> "decelCruise", pressed |-> FALSE]>>

-----------------------------------------------------------------------------
(* Specification of the gap-button hold: any sequence of toggle_exp_mode    *)
(* calls, the button pressed or released in each.                           *)

\* a Params store holding v
StoreOf(v) == [ExperimentalMode |-> v]

\* one call of toggle_exp_mode; hist.held counts the consecutive calls with the button
\* pressed, hist.put tells whether this call put ExperimentalMode
toggle_exp_mode_call(gap_pressed) ==
  /\ LET r == toggle_exp_mode(CI, param_s, CS.params_list.experimental_mode, gap_pressed)
         \* a put shows on the store that held the other value
         seen == \E v \in BOOLEAN :
                   toggle_exp_mode(CI, StoreOf(v), CS.params_list.experimental_mode,
                                   gap_pressed).param_s # StoreOf(v)
     IN /\ CI' = r.CI
        /\ param_s' = r.param_s
        /\ hist' = [hist EXCEPT
              !.held = IF gap_pressed THEN SatInc(@, GapHoldTicks + 2) ELSE 0,
              !.put = seen]
  /\ call' = Called("toggle_exp_mode", FALSE) @@ [args |-> <<gap_pressed>>]
  /\ UNCHANGED <<accel_controller, CP, CS, cs_out, events, now>>

ExpModeParams == {[DefaultParams EXCEPT !.experimental_mode = e] : e \in BOOLEAN}

InitToggle == Constructed({DefaultCP}, {<<FALSE, TRUE>>}, ExpModeParams, "none")

NextToggle == \E gap_pressed \in BOOLEAN : toggle_exp_mode_call(gap_pressed)

SpecToggle == InitToggle /\ [][NextToggle]_vars

ToggleCalled == call.op = "toggle_exp_mode"

\* C30: in any sequence of toggle_exp_mode calls, a call puts ExperimentalMode exactly
\* when it is the 51st consecutive call with the gap button pressed, so once in a
\* continuous hold and not again before a release; a release before the 51st call
\* leaves nothing put, and gap_button_counter stays within 0..50.
C30_OncePerHold ==
  ToggleCalled =>
    /\ hist.put <=> hist.held = GapHoldTicks + 1
    /\ CI.gap_button_counter \in 0..GapHoldTicks

\* the 51st pressed call: the negated stored value is put and the hold is remembered
C30_Witness ==
  /\ ToggleCalled
  /\ hist.put /\ hist.held = GapHoldTicks + 1
  /\ CI.experimental_mode_hold /\ CI.gap_button_counter = 0
  /\ param_s.ExperimentalMode = ~CS.params_list.experimental_mode

-----------------------------------------------------------------------------
(* AccelController (accel_controller.py): the acceleration profile and the  *)
(* limits it gives.  Speeds are in 1/100 m/s, accelerations are fractions   *)
(* <<numerator, denominator>> of m/s^2.                                     *)

DP_ACCEL_ECO == 1
DP_ACCEL_NORMAL == 2
DP_ACCEL_SPORT == 3

Profiles == {DP_ACCEL_STOCK, DP_ACCEL_ECO, DP_ACCEL_NORMAL, DP_ACCEL_SPORT}

\* the tables hold accelerations in 1/1000 m/s^2 and breakpoints in 1/100 m/s
AccelDen == 1000

DP_CRUISE_MIN_V == <<-1030, -790, -770, -770, -750, -750, -880, -820>>
DP_CRUISE_MIN_V_ECO == <<-1020, -780, -750, -750, -730, -730, -800, -800>>
DP_CRUISE_MIN_V_SPORT == <<-1040, -810, -790, -790, -770, -770, -900, -840>>
DP_CRUISE_MIN_BP == <<0, 5, 10, 50, 833, 1600, 3000, 4000>>

DP_CRUISE_MAX_V == <<2500, 2500, 2500, 1700, 1050, 810, 625, 420, 348, 120>>
DP_CRUISE_MAX_V_ECO == <<2000, 2000, 2000, 1400, 800, 680, 530, 320, 200, 85>>
DP_CRUISE_MAX_V_SPORT == <<3500, 3500, 2800, 2400, 1400, 1000, 890, 750, 500, 200>>
DP_CRUISE_MAX_BP == <<0, 100, 600, 800, 1100, 1500, 2000, 2500, 3000, 5500>>

\* Python values a caller may pass as the profile: an int n, a bool (n is 0 or 1), a
\* float n/d, nan, a str s, None
PyValue(kind, n, d, str) == [kind |-> kind, n |-> n, d |-> d, s |-> str]

Digits == <<"0", "1", "2", "3", "4", "5", "6", "7", "8", "9">>

IsDigit(c) == \E k \in DOMAIN Digits : Digits[k] = c

DigitValue(c) == (CHOOSE k \in DOMAIN Digits : Digits[k] = c) - 1

RECURSIVE strip(_)
\* str.strip() of the blanks
strip(str) ==
  IF str = <<>> THEN str
  ELSE IF Head(str) = " " THEN strip(Tail(str))
  ELSE IF str[Len(str)] = " " THEN strip(SubSeq(str, 1, Len(str) - 1))
  ELSE str

RECURSIVE DecimalValue(_, _)
DecimalValue(str, acc) ==
  IF str = <<>> THEN acc ELSE DecimalValue(Tail(str), 10 * acc + DigitValue(Head(str)))

\* int() of a str: blanks around, an optional sign, at least one digit, digits only
int_of_str(str) ==
  LET t == strip(str)
      signed == t # <<>> /\ Head(t) \in {"+", "-"}
      body == IF signed THEN Tail(t) ELSE t
  IN IF body = <<>> \/ \E k \in DOMAIN body : ~IsDigit(body[k])
     THEN [error |-> TRUE, value |-> 0]
     ELSE [error |-> FALSE,
           value |-> IF signed /\ Head(t) = "-" THEN -DecimalValue(body, 0)
                     ELSE DecimalValue(body, 0)]

\* the built-in int(): truncation towards zero of a float, ValueError for nan and for
\* a str that is no integer literal, TypeError for None
int(v) ==
  IF v.kind \in {"int", "bool"} THEN [error |-> FALSE, value |-> v.n]
  ELSE IF v.kind = "float"
  THEN [error |-> FALSE, value |-> IF v.n >= 0 THEN v.n \div v.d ELSE -((-v.n) \div v.d)]
  ELSE IF v.kind = "str" THEN int_of_str(v.s)
  ELSE [error |-> TRUE, value |-> 0]

\* variant: a failed conversion leaves the profile as it was
NewProfileMut(profile, current) ==
  IF int(profile).error THEN current
  ELSE IF int(profile).value \in Profiles THEN int(profile).value
  ELSE DP_ACCEL_STOCK

\* the value set_profile stores
NewProfile(profile, current) ==
  IF int(profile).error THEN DP_ACCEL_STOCK
  ELSE IF int(profile).value \in Profiles THEN int(profile).value
  ELSE DP_ACCEL_STOCK

set_profile(profile) ==
  /\ accel_controller' = [accel_controller EXCEPT
                            !.profile = NewProfile(profile, accel_controller.profile)]
  /\ call' = Called("set_profile", FALSE)
               @@ [args |-> <<profile>>, before |-> accel_controller.profile]
  /\ UNCHANGED <<CP, CI, CS, cs_out, events, param_s, now, hist>>

\* numpy_fast.interp of a scalar: the end values outside the breakpoints, the line
\* between the two neighbours inside
interp(x, xp, fp) ==
  IF x <= xp[1] THEN <<fp[1], AccelDen>>
  ELSE IF x >= xp[Len(xp)] THEN <<fp[Len(fp)], AccelDen>>
  ELSE LET hi == CHOOSE k \in 2..Len(xp) : xp[k - 1] <= x /\ x < xp[k]
           low == hi - 1
       IN <<(x - xp[low]) * (fp[hi] - fp[low]) + fp[low] * (xp[hi] - xp[low]),
            (xp[hi] - xp[low]) * AccelDen>>

dp_calc_cruise_accel_limits(profile, v_ego) ==
  LET min_v == IF profile = DP_ACCEL_ECO THEN DP_CRUISE_MIN_V_ECO
               ELSE IF profile = DP_ACCEL_SPORT THEN DP_CRUISE_MIN_V_SPORT
               ELSE DP_CRUISE_MIN_V
      max_v == IF profile = DP_ACCEL_ECO THEN DP_CRUISE_MAX_V_ECO
               ELSE IF profile = DP_ACCEL_SPORT THEN DP_CRUISE_MAX_V_SPORT
               ELSE DP_CRUISE_MAX_V
  IN <<interp(v_ego, DP_CRUISE_MIN_BP, min_v), interp(v_ego, DP_CRUISE_MAX_BP, max_v)>>

get_accel_limits(v_ego, accel_limits) ==
  /\ call' = Called("get_accel_limits",
                    IF accel_controller.profile = DP_ACCEL_STOCK THEN accel_limits
                    ELSE dp_calc_cruise_accel_limits(accel_controller.profile, v_ego))
               @@ [args |-> <<v_ego, accel_limits>>]
  /\ UNCHANGED <<accel_controller, CP, CI, CS, cs_out, events, param_s, now, hist>>

is_enabled ==
  /\ call' = Called("is_enabled", accel_controller.profile # DP_ACCEL_STOCK)
  /\ UNCHANGED <<accel_controller, CP, CI, CS, cs_out, events, param_s, now, hist>>

-----------------------------------------------------------------------------
(* Specification of the acceleration profile: any sequence of set_profile,  *)
(* is_enabled and get_accel_limits calls.                                   *)

\* the largest int passed as a profile
MaxProfileArg == 4

Str(str) == PyValue("str", 0, 1, str)

ProfileArgs ==
  {PyValue("int", n, 1, <<>>) : n \in -1..MaxProfileArg}
    \cup {PyValue("bool", 1, 1, <<>>), PyValue("none", 0, 1, <<>>),
          PyValue("nan", 0, 1, <<>>)}
    \cup {PyValue("float", n, 10, <<>>) : n \in {-5, 27, 39, 45}}
    \cup {Str(<<"2">>), Str(<<" ", "3", " ">>), Str(<<"+", "1">>), Str(<<"-", "1">>),
          Str(<<"1", "2">>), Str(<<"2", ".", "0">>), Str(<<"e", "c", "o">>), Str(<<>>)}

\* v_ego below, at, between and above the breakpoints
VEgos == {-100, 0, 30, 833, 1200, 4000, 6000}

\* the limits of the caller
AccelLimits ==
  {<<(<<-1200, AccelDen>>), (<<2000, AccelDen>>)>>,
   <<(<<-1030, AccelDen>>), (<<2500, AccelDen>>)>>}

InitAccel == Constructed({DefaultCP}, {<<FALSE, TRUE>>}, {DefaultParams}, "none")

NextAccel ==
  \/ \E profile \in ProfileArgs : set_profile(profile)
  \/ is_enabled
  \/ \E v_ego \in VEgos, accel_limits \in AccelLimits : get_accel_limits(v_ego, accel_limits)

SpecAccel == InitAccel /\ [][NextAccel]_vars

\* the argument's int() conversion fails or is no profile
InvalidProfile(profile) == int(profile).error \/ int(profile).value \notin 0..3

\* C31: after any sequence of set_profile calls the stored profile is one of 0, 1, 2, 3;
\* an argument whose int() conversion fails or falls outside that set leaves the
\* controller in the STOCK profile, not in the profile set before; and in the STOCK
\* profile is_enabled() is False and get_accel_limits returns the caller's accel_limits
\* unchanged for every v_ego.
C31_InvalidProfileFallback ==
  /\ accel_controller.profile \in 0..3
  /\ (call.op = "set_profile" /\ InvalidProfile(call.args[1]))
       => accel_controller.profile = DP_ACCEL_STOCK
  /\ (call.op = "is_enabled" /\ accel_controller.profile = DP_ACCEL_STOCK) => ~call.ret
  /\ (call.op = "get_accel_limits" /\ accel_controller.profile = DP_ACCEL_STOCK)
       => call.ret = call.args[2]

\* SPORT was set, then a str that is no integer: the controller is back in STOCK
C31_Witness ==
  /\ call.op = "set_profile"
  /\ call.before = DP_ACCEL_SPORT
  /\ call.args[1] = Str(<<"e", "c", "o">>)
  /\ accel_controller.profile = DP_ACCEL_STOCK

====
